---- MODULE Spec2Model ----
(***************************************************************************)
(* Coalition formation among Cloud Infrastructure Providers (CIPs):        *)
(* the placement solver call (find_optimal_allocation), the coalition      *)
(* evaluator (analyze_coalitions) and the four partition selectors of      *)
(* src/src/sim.cpp.                                                        *)
(*                                                                         *)
(* Numbers.  A RealT is modelled as an exact rational [n, d] with d > 0,   *)
(* or as one of the two IEEE specials NaN = [0, 0] and Infinity = [1, 0].  *)
(* Amounts of money are counted in units of 1e-3/ShareDen dollars, so that *)
(* the 1e-3 of "wcost" and the VM shares (numerators over ShareDen) are    *)
(* exact integers.  Arrays of the code indexed 0..n-1 are sequences        *)
(* indexed 1..n here (PMs and VMs of a coalition) or functions on 0..n-1   *)
(* (players, types).                                                       *)
(***************************************************************************)
EXTENDS Integers, Sequences, FiniteSets, TLC

(***************************************************************************)
(* Bounds of the model.                                                    *)
(***************************************************************************)
MaxCips == 3
MaxPms == 1
MaxVms == 1
MaxTiLimHits == 1
MaxCallPms == 2
MaxCallVms == 2

(***************************************************************************)
(* Units.                                                                  *)
(***************************************************************************)
ShareDen == 2
MinNormal == 1

(***************************************************************************)
(* RealT                                                                   *)
(***************************************************************************)
RECURSIVE GCD(_, _)
GCD(a, b) == IF b = 0 THEN a ELSE GCD(b, a % b)

Abs(i) == IF i < 0 THEN -i ELSE i

NaN == [n |-> 0, d |-> 0]

Infinity == [n |-> 1, d |-> 0]

Real(num, den) ==
    IF den = 0 THEN NaN
    ELSE LET g == GCD(Abs(num), Abs(den))
             sg == IF den < 0 THEN -1 ELSE 1
         IN [n |-> sg * (num \div g), d |-> sg * (den \div g)]

FromInt(i) == [n |-> i, d |-> 1]

isnan(a) == a.d = 0 /\ a.n = 0

IsFinite(a) == a.d > 0

Plus(a, b) == IF ~IsFinite(a) \/ ~IsFinite(b) THEN NaN
              ELSE Real(a.n * b.d + b.n * a.d, a.d * b.d)

Minus(a, b) == IF ~IsFinite(a) \/ ~IsFinite(b) THEN NaN
               ELSE Real(a.n * b.d - b.n * a.d, a.d * b.d)

Times(a, b) == IF ~IsFinite(a) \/ ~IsFinite(b) THEN NaN
               ELSE Real(a.n * b.n, a.d * b.d)

Over(a, b) == IF ~IsFinite(a) \/ ~IsFinite(b) THEN NaN
              ELSE Real(a.n * b.d, a.d * b.n)

\* a > b of IEEE: false as soon as one side is NaN.
Greater(a, b) == IsFinite(a) /\ IsFinite(b) /\ a.n * b.d > b.n * a.d

\* a == b of IEEE.
Equal(a, b) == IsFinite(a) /\ IsFinite(b) /\ a.n * b.d = b.n * a.d

\* a >= b on numbers: false as soon as one side is NaN.
GreaterEqual(a, b) == Greater(a, b) \/ Equal(a, b)

\* dcs::math::float_traits: the tolerance is relative, and the model's
\* arithmetic is exact, so two numbers differ by more than the tolerance
\* exactly when they differ.
definitely_greater(a, b) == Greater(a, b)

definitely_less(a, b) == Greater(b, a)

essentially_equal(a, b) == Equal(a, b)

(***************************************************************************)
(* Combinatorial kernel (dcs::algorithm) and coalition ids (gtpack).       *)
(***************************************************************************)
RECURSIVE Pow2(_)
Pow2(k) == IF k = 0 THEN 1 ELSE 2 * Pow2(k - 1)

RECURSIVE Fact(_)
Fact(k) == IF k = 0 THEN 1 ELSE k * Fact(k - 1)

RECURSIVE SumOver(_, _)
SumOver(S, f) == IF S = {} THEN 0
                 ELSE LET x == CHOOSE y \in S : TRUE
                      IN f[x] + SumOver(S \ {x}, f)

Max(S) == CHOOSE x \in S : \A y \in S : y <= x

Min(S) == CHOOSE x \in S : \A y \in S : x <= y

\* The ascending sequence of the elements of a set of integers.
RECURSIVE Sorted(_)
Sorted(S) == IF S = {} THEN << >>
             ELSE <<Min(S)>> \o Sorted(S \ {Min(S)})

\* The set partitions of a set.
SetPartitions(S) ==
    {P \in SUBSET ((SUBSET S) \ {{}}) :
        UNION P = S /\ \A a \in P : \A b \in P : a # b => a \cap b = {}}

\* gtpack::players_coalition::make_id: the bitmask of a set of players.
make_id(players) == SumOver(players, [p \in players |-> Pow2(p)])

\* gtpack::players_coalition(np, cid).players()
coalition_players(np, cid) == {p \in 0..(np - 1) : (cid \div Pow2(p)) % 2 = 1}

\* lexicographic_subset(n, include_empty): the enumerator's state is the
\* characteristic bit-vector of the next subset, as a number.
lexicographic_subset(n, include_empty) ==
    [n |-> n, next |-> IF include_empty THEN 0 ELSE 1]

subset_has_next(e) == e.next < Pow2(e.n)

\* Mutant of next_subset: the subsets come in descending order.
next_subset_descending(elems, e) ==
    [chosen |-> {elems[i] : i \in {k \in 1..Len(elems) :
                                     ((Pow2(e.n) - e.next) \div Pow2(k - 1)) % 2 = 1}},
     after |-> [e EXCEPT !.next = e.next + 1]]

\* next_subset(first, last, e): the chosen elements of the sequence elems.
next_subset(elems, e) ==
    [chosen |-> {elems[i] : i \in {k \in 1..Len(elems) : (e.next \div Pow2(k - 1)) % 2 = 1}},
     after |-> [e EXCEPT !.next = e.next + 1]]

\* lexicographic_partition(n): the enumerator's state is the restricted
\* growth string of the next partition (digit i is the block of element i),
\* <<0,...,0>> first; "done" after the last one <<0,1,...,n-1>>.
lexicographic_partition(n) == [n |-> n, a |-> [i \in 1..n |-> 0], done |-> FALSE]

partition_has_next(e) == ~e.done

PrefixMax(a, j) == IF j = 1 THEN -1 ELSE Max({a[i] : i \in 1..(j - 1)})

Incrementable(a) == {j \in 1..Len(a) : a[j] <= PrefixMax(a, j)}

SuccRGS(a) ==
    LET j == Max(Incrementable(a))
    IN [i \in 1..Len(a) |-> IF i < j THEN a[i] ELSE IF i = j THEN a[j] + 1 ELSE 0]

\* next_partition(first, last, e): the blocks of the current string over the
\* sequence elems, and the enumerator advanced.
next_partition(elems, e) ==
    [subs |-> {{elems[i] : i \in {k \in 1..e.n : e.a[k] = b}} : b \in {e.a[k] : k \in 1..e.n}},
     after |-> IF Incrementable(e.a) = {} THEN [e EXCEPT !.done = TRUE]
               ELSE [e EXCEPT !.a = SuccRGS(e.a)]]

(***************************************************************************)
(* find_optimal_allocation.  A call c carries the arguments; the decision  *)
(* variables are x (PM on), y (VM v on PM h) and s (CPU share of a PM,     *)
(* here its numerator over ShareDen).                                      *)
(***************************************************************************)
PMsOf(c) == 1..c.npms

VMsOf(c) == 1..c.nvms

\* C1: \forall v \in V: \sum_{h \in H} y_{vh} = 1 (one row of y).
C1(c, row) == Cardinality({h \in PMsOf(c) : row[h]}) = 1

\* Mutant of C2: the constraint is left out of the model.
C2_dropped(c, x, y) == TRUE

\* C2: \forall h \in H: \sum_{v \in V} y_{vh} \le |V|*x_{h}
C2(c, x, y) ==
    \A h \in PMsOf(c) :
        Cardinality({v \in VMsOf(c) : y[v][h]}) <= c.nvms * (IF x[h] THEN 1 ELSE 0)

RamShare(c, y, h) ==
    SumOver({v \in VMsOf(c) : y[v][h]},
            [v \in VMsOf(c) |-> c.vm_specs_ram[c.vms_category[v]][c.pms_category[h]]])

CpuShare(c, y, h) ==
    SumOver({v \in VMsOf(c) : y[v][h]},
            [v \in VMsOf(c) |-> c.vm_specs_cpu[c.vms_category[v]][c.pms_category[h]]])

\* C3: \forall h \in H: \sum_{v \in V} y_{vh}M_{q(v),g(h)} \le x_{h}
C3(c, x, y) ==
    \A h \in PMsOf(c) : RamShare(c, y, h) <= (IF x[h] THEN ShareDen ELSE 0)

\* C4: s_{h} is the CPU share of h, a variable with bounds 0 and 1.
C4(c, y) ==
    \A h \in PMsOf(c) : CpuShare(c, y, h) >= 0 /\ CpuShare(c, y, h) <= ShareDen

\* C5: \forall h \in H: s_{h} \le x_{h}
C5(c, x, y) ==
    \A h \in PMsOf(c) : CpuShare(c, y, h) <= (IF x[h] THEN ShareDen ELSE 0)

Rows(c) == {row \in [PMsOf(c) -> BOOLEAN] : C1(c, row)}

FeasibleAllocations(c) ==
    {sol \in [x : [PMsOf(c) -> BOOLEAN], y : [VMsOf(c) -> Rows(c)]] :
        C2(c, sol.x, sol.y) /\ C3(c, sol.x, sol.y) /\ C4(c, sol.y) /\ C5(c, sol.x, sol.y)}

\* pm_consumed_power, times ShareDen.
pm_consumed_power(min_power, max_power, u) ==
    min_power * ShareDen + (max_power - min_power) * u

\* Mutant of MigrationCost: hosting a VM of another CIP costs nothing.
MigrationCost_free(c, y, h) == 0

MigrationCost(c, y, h) ==
    SumOver({v \in VMsOf(c) : y[v][h]},
            [v \in VMsOf(c) |->
                c.cip_to_cip_vm_migration_costs[c.vms_cip[v]][c.pms_cip[h]][c.vms_category[v]]])

\* The objective z: watts (min_power) or money.
Objective(c, x, y) ==
    IF c.min_power
    THEN SumOver(PMsOf(c),
            [h \in PMsOf(c) |->
                (IF x[h] THEN c.pm_specs_min_power[c.pms_category[h]] * ShareDen ELSE 0)
                + (c.pm_specs_max_power[c.pms_category[h]]
                   - c.pm_specs_min_power[c.pms_category[h]]) * CpuShare(c, y, h)])
    ELSE SumOver(PMsOf(c),
            [h \in PMsOf(c) |->
                LET dC == c.pm_specs_max_power[c.pms_category[h]]
                          - c.pm_specs_min_power[c.pms_category[h]]
                    wcost == c.cips_electricity_cost[c.pms_cip[h]]
                    xh == IF x[h] THEN 1 ELSE 0
                    oh == IF c.pm_power_states[h] THEN 1 ELSE 0
                IN (xh * c.pm_specs_min_power[c.pms_category[h]] * ShareDen
                    + dC * CpuShare(c, y, h)) * wcost
                   + xh * (1 - oh) * c.cip_pm_awake_costs[c.pms_cip[h]][c.pms_category[h]]
                   + (1 - xh) * oh * c.cip_pm_asleep_costs[c.pms_cip[h]][c.pms_category[h]]
                   + MigrationCost(c, y, h)])

\* Mutant of OptimalAllocations: the solver keeps the dearest feasible
\* allocations instead of the cheapest.
OptimalAllocations_dearest(c) ==
    LET F == FeasibleAllocations(c)
    IN {sol \in F : \A other \in F :
            Objective(c, sol.x, sol.y) >= Objective(c, other.x, other.y)}

OptimalAllocations(c) ==
    LET F == FeasibleAllocations(c)
        zmin == Min({Objective(c, sol.x, sol.y) : sol \in F})
    IN {sol \in F : Objective(c, sol.x, sol.y) = zmin}

\* The solver's final status.  Without a time limit it proves optimality or
\* infeasibility (which its presolve may report as InfeasibleOrUnbounded);
\* with one it may also stop on a feasible solution or on none.  Every
\* variable is bounded, so no status says Unbounded.
SolverStatuses(c) ==
    IF FeasibleAllocations(c) = {}
    THEN {"Infeasible", "InfeasibleOrUnbounded"}
    ELSE {"Optimal"} \cup
         (IF definitely_greater(FromInt(c.time_lim), FromInt(0))
          THEN {"Feasible", "Unknown"} ELSE {})

SolverAllocations(c, status) ==
    IF status = "Optimal" THEN OptimalAllocations(c)
    ELSE IF status = "Feasible" THEN FeasibleAllocations(c)
    ELSE {}

\* optimal_allocation_info()
optimal_allocation_info ==
    [solved |-> FALSE, optimal |-> FALSE, objective_value |-> Infinity,
     cost |-> Infinity, kwatt |-> Infinity,
     pm_power_states |-> << >>, pm_vm_allocations |-> << >>]

\* Mutant of SolutionCost: the energy cost of the PMs that are on, whatever
\* the objective.
SolutionCost_energy(c, sol) ==
    SumOver({h \in PMsOf(c) : sol.x[h]},
            [h \in PMsOf(c) |->
                pm_consumed_power(c.pm_specs_min_power[c.pms_category[h]],
                                  c.pm_specs_max_power[c.pms_category[h]],
                                  CpuShare(c, sol.y, h))
                * c.cips_electricity_cost[c.pms_cip[h]]])

\* The cost of a solution: the objective, or under min_power the energy cost
\* of the PMs that are on.
SolutionCost(c, sol) ==
    IF c.min_power
    THEN SumOver({h \in PMsOf(c) : sol.x[h]},
            [h \in PMsOf(c) |->
                pm_consumed_power(c.pm_specs_min_power[c.pms_category[h]],
                                  c.pm_specs_max_power[c.pms_category[h]],
                                  CpuShare(c, sol.y, h))
                * c.cips_electricity_cost[c.pms_cip[h]]])
    ELSE Objective(c, sol.x, sol.y)

\* IloCplex::solve(): true when the solver holds a feasible solution.
solve(status) == status \in {"Optimal", "Feasible"}

\* Mutant of find_optimal_allocation: solved is set before the status is read.
find_optimal_allocation_solved_first(c, status, sol) ==
    IF status \in {"Optimal", "Feasible"}
    THEN [solved |-> TRUE,
          optimal |-> (status = "Optimal"),
          objective_value |-> FromInt(Objective(c, sol.x, sol.y)),
          cost |-> FromInt(SolutionCost(c, sol)),
          kwatt |-> Infinity,
          pm_power_states |-> [h \in PMsOf(c) |-> sol.x[h]],
          pm_vm_allocations |-> [h \in PMsOf(c) |-> [v \in VMsOf(c) |-> sol.y[v][h]]]]
    ELSE [optimal_allocation_info EXCEPT !.solved = TRUE]

\* The record the call returns on a status, for the solution the solver holds:
\* solved is what solve() returned, optimal is reset before the status is
\* read, and a status without a solution returns the record as it is then.
find_optimal_allocation(c, status, sol) ==
    IF status \in {"Optimal", "Feasible"}
    THEN [solved |-> solve(status),
          optimal |-> (status = "Optimal"),
          objective_value |-> FromInt(Objective(c, sol.x, sol.y)),
          cost |-> FromInt(SolutionCost(c, sol)),
          kwatt |-> Infinity,
          pm_power_states |-> [h \in PMsOf(c) |-> sol.x[h]],
          pm_vm_allocations |-> [h \in PMsOf(c) |-> [v \in VMsOf(c) |-> sol.y[v][h]]]]
    ELSE [optimal_allocation_info EXCEPT !.solved = solve(status), !.optimal = FALSE]

\* The environments (IloEnv env) that a call leaves allocated: env.end() is
\* reached only after the solution was read.
EnvsLeft(status) == IF status \in {"Optimal", "Feasible"} THEN 0 ELSE 1

NoAllocation == [x |-> << >>, y |-> << >>]

(***************************************************************************)
(* State.                                                                  *)
(***************************************************************************)
VARIABLES
    pc,                   \* where the run is: "call", "returned" (a single
                          \* solver call), "analyze", "done"
    s,                    \* the scenario
    opts,                 \* the options the evaluation reads
    subset,               \* analyze_coalitions: the subset enumerator
    game,                 \* the characteristic function: cid -> value
    visited_coalitions,   \* cid -> coalition_info
    evaluated,            \* the cids in the order they were evaluated
    tilim_hits,           \* solver calls stopped by the time limit so far
    coalition_formation,  \* opts.coalition_formation, drawn where it is read
    best_partitions,      \* the selector's result
    examined,             \* per partition the selector examined: what it
                          \* saw and what it decided
    call,                 \* arguments of a single solver call
    solution,             \* what that call returned
    envs,                 \* solver environments allocated and not released
    argv,                 \* main: the command line
    scenario_file,        \* what the scenario file holds
    scen,                 \* the scenario that make_scenario returned
    iteration,            \* run_experiment: the loop counter i
    csv,                  \* the rows of the CSV file
    drawn,                \* the random values drawn in the last iteration
    exit_status,          \* how the process ended
    usage_printed         \* usage() was called

run_vars == <<argv, scenario_file, scen, iteration, csv, drawn, exit_status, usage_printed>>

vars == <<pc, s, opts, subset, game, visited_coalitions, evaluated, tilim_hits,
          coalition_formation, best_partitions, examined, call, solution, envs, run_vars>>

(***************************************************************************)
(* analyze_coalitions: one coalition.                                      *)
(***************************************************************************)
Cips(sc) == 0..(sc.num_cips - 1)

PmTypes(sc) == 0..(sc.num_pm_types - 1)

VmTypes(sc) == 0..(sc.num_vm_types - 1)

\* std::vector<std::size_t> cips, cips[k] = k
cips_vector(sc) == [k \in 1..sc.num_cips |-> k - 1]

\* The PMs of one member and one type: category, owner, and the power state
\* read at s.cip_pm_power_states[cip][k], k counting from 0 within the type.
CoalPmsOfType(sc, cip, p) ==
    [k \in 1..sc.cip_num_pms[cip][p] |->
        [cip |-> cip, category |-> p, state |-> sc.cip_pm_power_states[cip][k - 1]]]

RECURSIVE CoalPmsOfCip(_, _, _)
CoalPmsOfCip(sc, cip, p) ==
    IF p >= sc.num_pm_types THEN << >>
    ELSE CoalPmsOfType(sc, cip, p) \o CoalPmsOfCip(sc, cip, p + 1)

RECURSIVE CoalPms(_, _, _)
CoalPms(sc, coal_cips, i) ==
    IF i > Len(coal_cips) THEN << >>
    ELSE CoalPmsOfCip(sc, coal_cips[i], 0) \o CoalPms(sc, coal_cips, i + 1)

CoalVmsOfType(sc, cip, v) ==
    [k \in 1..sc.cip_num_vms[cip][v] |-> [cip |-> cip, category |-> v]]

RECURSIVE CoalVmsOfCip(_, _, _)
CoalVmsOfCip(sc, cip, v) ==
    IF v >= sc.num_vm_types THEN << >>
    ELSE CoalVmsOfType(sc, cip, v) \o CoalVmsOfCip(sc, cip, v + 1)

RECURSIVE CoalVms(_, _, _)
CoalVms(sc, coal_cips, i) ==
    IF i > Len(coal_cips) THEN << >>
    ELSE CoalVmsOfCip(sc, coal_cips[i], 0) \o CoalVms(sc, coal_cips, i + 1)

\* coal_profit
coal_profit(sc, coal_cips) ==
    SumOver({coal_cips[i] : i \in 1..Len(coal_cips)},
            [cip \in Cips(sc) |->
                SumOver(VmTypes(sc),
                        [v \in VmTypes(sc) |-> sc.cip_revenues[cip][v] * sc.cip_num_vms[cip][v]])])

\* The arguments analyze_coalitions passes to find_optimal_allocation.
SolverCall(sc, o, coal_cips) ==
    LET pms == CoalPms(sc, coal_cips, 1)
        vms == CoalVms(sc, coal_cips, 1)
    IN [ncips |-> Len(coal_cips),
        cips_electricity_cost |-> sc.cip_electricity_costs,
        npms |-> Len(pms),
        pms_cip |-> [h \in 1..Len(pms) |-> pms[h].cip],
        pms_category |-> [h \in 1..Len(pms) |-> pms[h].category],
        pm_specs_min_power |-> sc.pm_spec_min_powers,
        pm_specs_max_power |-> sc.pm_spec_max_powers,
        nvms |-> Len(vms),
        vms_cip |-> [v \in 1..Len(vms) |-> vms[v].cip],
        vms_category |-> [v \in 1..Len(vms) |-> vms[v].category],
        vm_specs_cpu |-> sc.vm_spec_cpus,
        vm_specs_ram |-> sc.vm_spec_rams,
        pm_power_states |-> [h \in 1..Len(pms) |-> pms[h].state],
        cip_pm_asleep_costs |-> sc.cip_pm_asleep_costs,
        cip_pm_awake_costs |-> sc.cip_pm_awake_costs,
        cip_to_cip_vm_migration_costs |-> sc.cip_to_cip_vm_migration_costs,
        min_power |-> FALSE,
        time_lim |-> o.opt_time_lim]

\* tot_watt: the power of the PMs that the allocation leaves on.
tot_watt(c, alloc) ==
    SumOver({h \in PMsOf(c) : alloc.pm_power_states[h]},
            [h \in PMsOf(c) |->
                pm_consumed_power(
                    c.pm_specs_min_power[c.pms_category[h]],
                    c.pm_specs_max_power[c.pms_category[h]],
                    SumOver({v \in VMsOf(c) : alloc.pm_vm_allocations[h][v]},
                            [v \in VMsOf(c) |->
                                c.vm_specs_cpu[c.vms_category[v]][c.pms_category[h]]]))])

\* game.value(cid) as the sub-game reads it: the empty coalition is worth 0.
GameValue(g, cid) ==
    IF cid = 0 THEN FromInt(0)
    ELSE IF cid \in DOMAIN g THEN g[cid] ELSE NaN

RECURSIVE SumReal(_, _)
SumReal(S, f) == IF S = {} THEN FromInt(0)
                 ELSE LET x == CHOOSE y \in S : TRUE
                      IN Plus(f[x], SumReal(S \ {x}, f))

\* v(T + p) - v(T) in the game g.
Marginal(g, T, p) ==
    Minus(GameValue(g, make_id(T \cup {p})), GameValue(g, make_id(T)))

\* gtpack::shapley_value of the sub-game on the players S.
shapley_value(g, S) ==
    [p \in S |->
        SumReal(SUBSET (S \ {p}),
                [T \in SUBSET (S \ {p}) |->
                    Times(Real(Fact(Cardinality(T)) * Fact(Cardinality(S) - Cardinality(T) - 1),
                               Fact(Cardinality(S))),
                          Marginal(g, T, p))])]

\* gtpack::banzhaf_value of the sub-game on the players S.
banzhaf_value(g, S) ==
    [p \in S |->
        Over(SumReal(SUBSET (S \ {p}), [T \in SUBSET (S \ {p}) |-> Marginal(g, T, p)]),
             FromInt(Pow2(Cardinality(S) - 1)))]

\* gtpack::norm_banzhaf_value: the Banzhaf values scaled to sum to v(S).
norm_banzhaf_value(g, S) ==
    LET bz == banzhaf_value(g, S)
        total == SumReal(S, bz)
    IN [p \in S |-> Over(Times(bz[p], GameValue(g, make_id(S))), total)]

\* Mutant of coal_payoffs: the Shapley case falls through to the Banzhaf value.
coal_payoffs_fallthrough(o, g, S) ==
    IF o.coalition_value_division = "norm_banzhaf" THEN norm_banzhaf_value(g, S)
    ELSE banzhaf_value(g, S)

\* switch (opts.coalition_value_division)
coal_payoffs(o, g, S) ==
    IF o.coalition_value_division = "banzhaf" THEN banzhaf_value(g, S)
    ELSE IF o.coalition_value_division = "norm_banzhaf" THEN norm_banzhaf_value(g, S)
    ELSE shapley_value(g, S)

\* What the bound x >= 0 of the core's program adds to the game: a player
\* alone counts for at least 0.
CoreFloor(g, T) ==
    IF Cardinality(T) = 1 /\ Greater(FromInt(0), GameValue(g, make_id(T)))
    THEN FromInt(0)
    ELSE GameValue(g, make_id(T))

\* gtpack::find_core(subgame).empty() negated: the program {x >= 0, x(S) = v(S),
\* x(T) >= v(T) for T in S} is feasible iff no balanced family of coalitions
\* is worth more than v(S) (Bondareva-Shapley).  The balanced families listed
\* are the minimal ones of a game of up to three players: the partitions and
\* the three pairs, each with weight 1/2.
core_nonempty(g, S) ==
    /\ \A P \in SetPartitions(S) :
          GreaterEqual(GameValue(g, make_id(S)), SumReal(P, [T \in P |-> CoreFloor(g, T)]))
    /\ Cardinality(S) = 3 =>
          LET pairs == {T \in SUBSET S : Cardinality(T) = 2}
          IN GreaterEqual(Times(FromInt(2), GameValue(g, make_id(S))),
                          SumReal(pairs, [T \in pairs |-> CoreFloor(g, T)]))

\* gtpack::belongs_to_core(subgame, payoffs): the constraints of the core's
\* program with x fixed to the payoffs.
belongs_to_core(g, S, x) ==
    /\ \A p \in S : GreaterEqual(x[p], FromInt(0))
    /\ Equal(SumReal(S, x), GameValue(g, make_id(S)))
    /\ \A T \in (SUBSET S) \ {{}} :
          GreaterEqual(SumReal(T, [p \in T |-> x[p]]), GameValue(g, make_id(T)))

\* Mutant of payoffs_in_core: the two branches of the test are swapped.
payoffs_in_core_swapped(empty, g, S, x) ==
    IF ~empty THEN ~belongs_to_core(g, S, x) ELSE FALSE

\* Check if the value is in the core (if the core != empty); the flag keeps
\* the false of coalition_info() otherwise.
payoffs_in_core(empty, g, S, x) ==
    IF ~empty THEN belongs_to_core(g, S, x) ELSE FALSE

\* coalition_info()
coalition_info ==
    [optimal_allocation |-> optimal_allocation_info,
     value |-> NaN,
     core_empty |-> TRUE,
     payoffs |-> << >>,
     payoffs_in_core |-> FALSE]

\* Mutant of CoalitionValue: the cost is not taken off the profit.
CoalitionValue_gross(sc, coal_cips, alloc) ==
    IF alloc.solved
    THEN FromInt(coal_profit(sc, coal_cips))
    ELSE FromInt(-MinNormal)

\* The value the game gets for a coalition.
CoalitionValue(sc, coal_cips, alloc) ==
    IF alloc.solved
    THEN Minus(FromInt(coal_profit(sc, coal_cips)), alloc.cost)
    ELSE FromInt(-MinNormal)

\* The record of a coalition, given the game that already holds its value.
CoalitionRecord(o, g, c, coal_cips, alloc) ==
    LET cid == make_id({coal_cips[i] : i \in 1..Len(coal_cips)})
        S == {coal_cips[i] : i \in 1..Len(coal_cips)}
        empty == ~core_nonempty(g, S)
    IN IF alloc.solved
       THEN [optimal_allocation |-> [alloc EXCEPT !.kwatt = FromInt(tot_watt(c, alloc))],
             value |-> GameValue(g, cid),
             core_empty |-> empty,
             payoffs |-> coal_payoffs(o, g, S),
             payoffs_in_core |-> payoffs_in_core(empty, g, S, coal_payoffs(o, g, S))]
       ELSE [coalition_info EXCEPT !.optimal_allocation = alloc,
                                   !.core_empty = TRUE,
                                   !.payoffs_in_core = FALSE]

\* The solutions the evaluator can get back on a status: its later steps read
\* only solved, optimal and cost, so one allocation stands for all the
\* allocations of the same cost.
AllocationsByCost(c, status) ==
    LET A == SolverAllocations(c, status)
    IN IF A = {} THEN {NoAllocation}
       ELSE {CHOOSE sol \in A : Objective(c, sol.x, sol.y) = z :
                z \in {Objective(c, sol.x, sol.y) : sol \in A}}

StoppedByTimeLimit(c, status) ==
    status \in {"Feasible", "Unknown"}

\* Mutant of analyze_subset: the enumeration includes the empty set.
analyze_subset_with_empty(sc) == lexicographic_subset(sc.num_cips, TRUE)

\* alg::lexicographic_subset subset(s.num_cips, false)
analyze_subset(sc) == lexicographic_subset(sc.num_cips, FALSE)

\* The game and the table after the loop body has run for the coalition
\* coal_cips on the solver outcome (status, sol).
Evaluated(sc, o, g0, vc, coal_cips, status, sol) ==
    LET cid == make_id({coal_cips[i] : i \in 1..Len(coal_cips)})
        c == SolverCall(sc, o, coal_cips)
        alloc == find_optimal_allocation(c, status, sol)
        g == [k \in DOMAIN g0 \cup {cid} |->
                IF k = cid THEN CoalitionValue(sc, coal_cips, alloc) ELSE g0[k]]
    IN [game |-> g,
        visited_coalitions |->
           [k \in DOMAIN vc \cup {cid} |->
              IF k = cid THEN CoalitionRecord(o, g, c, coal_cips, alloc) ELSE vc[k]]]

\* The body of the loop "while (subset.has_next())".
EvaluateCoalition ==
    /\ pc = "analyze"
    /\ subset_has_next(subset)
    /\ LET ns == next_subset(cips_vector(s), subset)
           coal_cips == Sorted(ns.chosen)
           cid == make_id(ns.chosen)
           c == SolverCall(s, opts, coal_cips)
       IN \E status \in SolverStatuses(c) :
            /\ StoppedByTimeLimit(c, status) => tilim_hits < MaxTiLimHits
            /\ \E sol \in AllocationsByCost(c, status) :
                 LET ev == Evaluated(s, opts, game, visited_coalitions, coal_cips, status, sol)
                 IN /\ game' = ev.game
                    /\ visited_coalitions' = ev.visited_coalitions
                    /\ tilim_hits' = IF StoppedByTimeLimit(c, status)
                                     THEN tilim_hits + 1 ELSE tilim_hits
            /\ envs' = envs + EnvsLeft(status)
            /\ subset' = ns.after
            /\ evaluated' = Append(evaluated, cid)
    /\ UNCHANGED <<pc, s, opts, coalition_formation, best_partitions, examined,
                   call, solution, run_vars>>

\* The solver back-end throws inside find_optimal_allocation: the handlers
\* rethrow a runtime_error, which nothing catches up to main.
SolverThrows ==
    /\ pc = "analyze"
    /\ subset_has_next(subset)
    /\ pc' = "thrown"
    /\ envs' = envs + 1
    /\ UNCHANGED <<s, opts, subset, game, visited_coalitions, evaluated, tilim_hits,
                   coalition_formation, best_partitions, examined, call, solution, run_vars>>

(***************************************************************************)
(* The partition selectors.                                                *)
(***************************************************************************)
\* game.players(): the players 0..np-1 in order.
players_vector(np) == [k \in 1..np |-> k - 1]

\* The block of the partition subs that holds the player pid.
BlockOf(subs, pid) == CHOOSE sub \in subs : pid \in sub

\* What a RealT that was never written may hold.
Uninitialized == {NaN, FromInt(0)}

\* partition_info has no constructor: a local "partition_info<RealT>
\* candidate_partition;" starts with empty containers and a value that was
\* never written.
partition_info(junk) ==
    [value |-> junk, coalitions |-> {}, payoffs |-> << >>, side_payments |-> << >>]

\* candidate_partition after the loop over the subsets of the partition: the
\* coalitions and, coalition-wise, the payoffs (NaN where a coalition records
\* no payoff for a member).  No selector writes value or side_payments.
candidate_partition(subs, vc, junk) ==
    LET known == {sub \in subs : make_id(sub) \in DOMAIN vc}
    IN [partition_info(junk) EXCEPT
          !.coalitions = {make_id(sub) : sub \in known},
          !.payoffs = [pid \in UNION known |->
                          LET cid == make_id(BlockOf(known, pid))
                          IN IF pid \in DOMAIN vc[cid].payoffs
                             THEN vc[cid].payoffs[pid] ELSE NaN]]

\* Every subset that alg::lexicographic_subset(Len(elems), include_empty)
\* yields over the sequence elems.
EnumeratedSubsets(elems, include_empty) ==
    {next_subset(elems, [n |-> Len(elems), next |-> k]).chosen :
        k \in (IF include_empty THEN 0 ELSE 1)..(Pow2(Len(elems)) - 1)}

\* The partitions of the players of P_i that the split test compares with:
\* what one call of next_partition on a fresh enumerator returns.
SplitPartitions(coal_players) ==
    {next_partition(coal_players, lexicographic_partition(Len(coal_players))).subs}

\* Check that v(P_i) \ge \sum_{j=1}^l v(C_j): FALSE when P_i wants to split.
SplitStable(sub, vc) ==
    LET cid == make_id(sub)
        vPi == vc[cid].value
    IN \A sub_subs \in SplitPartitions(Sorted(sub)) :
          LET known == {x \in sub_subs : make_id(x) \in DOMAIN vc}
              svC == SumReal(known, [x \in known |-> vc[make_id(x)].value])
          IN ~definitely_less(vPi, svC)

\* The merge test over the non-empty subsets of P, the cids of the partition.
MergeStable(subs, vc, np) ==
    LET P == Sorted({make_id(sub) : sub \in subs})
    IN \A sub_P \in EnumeratedSubsets(P, FALSE) :
          LET known == {Pi_cid \in sub_P : Pi_cid \in DOMAIN vc}
              svPi == SumReal(known, [Pi_cid \in known |-> vc[Pi_cid].value])
              UPi_players == UNION {coalition_players(np, Pi_cid) : Pi_cid \in known}
              UPi_cid == make_id(UPi_players)
          IN UPi_cid \in DOMAIN vc => ~definitely_less(svPi, vc[UPi_cid].value)

Dhp_stable(subs, vc, np) ==
    /\ \A sub \in subs : make_id(sub) \in DOMAIN vc => SplitStable(sub, vc)
    /\ MergeStable(subs, vc, np)

\* Check player's preference: TRUE when pid prefers the coalition cid, which
\* holds pid, to its payoff in the candidate.
Prefers(pid, cid, cand, vc) ==
    \/ pid \notin DOMAIN vc[cid].payoffs
    \/ definitely_greater(vc[cid].payoffs[pid], cand.payoffs[pid])

\* Mutant of nash_stable: only the move of a player to a coalition of its own
\* is tried, not the move to another coalition of the partition.
nash_stable_leave_only(subs, vc, np) ==
    LET cand == candidate_partition(subs, vc, NaN)
    IN \A pid \in 0..(np - 1) :
          LET found_singleton == \E sub \in subs : pid \in sub /\ Cardinality(sub) = 1
              cid == make_id({pid})
          IN (~found_singleton /\ cid \notin cand.coalitions)
                 => ~Prefers(pid, cid, cand, vc)

nash_stable(subs, vc, np) ==
    LET cand == candidate_partition(subs, vc, NaN)
    IN \A pid \in 0..(np - 1) :
          /\ \A sub \in subs :
                pid \notin sub => ~Prefers(pid, make_id(sub \cup {pid}), cand, vc)
          /\ LET found_singleton == \E sub \in subs : pid \in sub /\ Cardinality(sub) = 1
                 cid == make_id({pid})
             IN (~found_singleton /\ cid \notin cand.coalitions)
                    => ~Prefers(pid, cid, cand, vc)

\* Mutant of ParetoScan: a player whose payoff equals the running one passes.
RECURSIVE ParetoScan_nonstrict(_, _, _, _)
ParetoScan_nonstrict(p, np, best, cand) ==
    IF p >= np THEN [best_payoffs |-> best, pareto_optimal |-> TRUE]
    ELSE IF isnan(best[p]) \/ ~Greater(best[p], cand.payoffs[p])
         THEN ParetoScan_nonstrict(p + 1, np, [best EXCEPT ![p] = cand.payoffs[p]], cand)
         ELSE [best_payoffs |-> best, pareto_optimal |-> FALSE]

\* The loop "for all players p" of the Pareto selector from player p on: the
\* running vector is overwritten as the scan goes and the scan stops at the
\* first player that does not improve.
RECURSIVE ParetoScan(_, _, _, _)
ParetoScan(p, np, best, cand) ==
    IF p >= np THEN [best_payoffs |-> best, pareto_optimal |-> TRUE]
    ELSE IF isnan(best[p]) \/ Greater(cand.payoffs[p], best[p])
         THEN ParetoScan(p + 1, np, [best EXCEPT ![p] = cand.payoffs[p]], cand)
         ELSE [best_payoffs |-> best, pareto_optimal |-> FALSE]

\* candidate_partition_value
candidate_partition_value(subs, vc) ==
    LET known == {sub \in subs : make_id(sub) \in DOMAIN vc}
    IN SumReal(known, [sub \in known |-> vc[make_id(sub)].value])

\* The state of a selector's loop "while (partition.has_next())".
SelectorStart(np, junk) ==
    [uninitialized |-> junk,
     best_partitions |-> << >>,
     best_payoffs |-> [p \in 0..(np - 1) |-> NaN],
     best_value |-> FromInt(0),
     examined |-> << >>]

\* What the loop records of one iteration: the partition, the running values
\* it started from and whether the candidate was pushed to best_partitions.
Examined(subs, cand, st, accepted) ==
    [subs |-> subs, candidate |-> cand, accepted |-> accepted,
     best_payoffs |-> st.best_payoffs, best_value |-> st.best_value]

\* One iteration of merge_split_stable_partition_selector.
MergeSplitStep(subs, vc, np, st) ==
    LET cand == candidate_partition(subs, vc, st.uninitialized)
        ok == Dhp_stable(subs, vc, np)
    IN [st EXCEPT !.best_partitions = IF ok THEN Append(@, cand) ELSE @,
                  !.examined = Append(@, Examined(subs, cand, st, ok))]

\* One iteration of nash_stable_partition_selector.
NashStep(subs, vc, np, st) ==
    LET cand == candidate_partition(subs, vc, st.uninitialized)
        ok == nash_stable(subs, vc, np)
    IN [st EXCEPT !.best_partitions = IF ok THEN Append(@, cand) ELSE @,
                  !.examined = Append(@, Examined(subs, cand, st, ok))]

\* One iteration of pareto_optimal_partition_selector.
ParetoStep(subs, vc, np, st) ==
    LET cand == candidate_partition(subs, vc, st.uninitialized)
        scan == ParetoScan(0, np, st.best_payoffs, cand)
    IN [st EXCEPT !.best_partitions = IF scan.pareto_optimal THEN Append(@, cand) ELSE @,
                  !.best_payoffs = scan.best_payoffs,
                  !.examined = Append(@, Examined(subs, cand, st, scan.pareto_optimal))]

\* One iteration of social_optimum_partition_selector.
SocialStep(subs, vc, np, st) ==
    LET cand == candidate_partition(subs, vc, st.uninitialized)
        value == candidate_partition_value(subs, vc)
    IN IF Len(st.best_partitions) = 0 \/ definitely_greater(value, st.best_value)
       THEN [st EXCEPT !.best_partitions = <<cand>>,
                       !.best_value = value,
                       !.examined = Append(@, Examined(subs, cand, st, TRUE))]
       ELSE IF essentially_equal(value, st.best_value)
       THEN [st EXCEPT !.best_partitions = Append(@, cand),
                       !.examined = Append(@, Examined(subs, cand, st, TRUE))]
       ELSE [st EXCEPT !.examined = Append(@, Examined(subs, cand, st, FALSE))]

SelectorStep(formation, subs, vc, np, st) ==
    IF formation = "merge_split" THEN MergeSplitStep(subs, vc, np, st)
    ELSE IF formation = "nash" THEN NashStep(subs, vc, np, st)
    ELSE IF formation = "pareto" THEN ParetoStep(subs, vc, np, st)
    ELSE SocialStep(subs, vc, np, st)

\* The loop of a selector from the enumerator state e on.
RECURSIVE SelectorLoop(_, _, _, _, _)
SelectorLoop(formation, e, vc, np, st) ==
    IF ~partition_has_next(e) THEN st
    ELSE LET nx == next_partition(players_vector(np), e)
         IN SelectorLoop(formation, nx.after, vc, np,
                         SelectorStep(formation, nx.subs, vc, np, st))

\* switch (opts.coalition_formation): the selector runs over every partition.
Select(formation) ==
    /\ pc = "analyze"
    /\ ~subset_has_next(subset)
    /\ \E junk \in Uninitialized :
          LET st == SelectorLoop(formation, lexicographic_partition(s.num_cips),
                                 visited_coalitions, s.num_cips,
                                 SelectorStart(s.num_cips, junk))
          IN /\ best_partitions' = st.best_partitions
             /\ examined' = st.examined
    /\ coalition_formation' = formation
    /\ pc' = "done"
    /\ UNCHANGED <<s, opts, subset, game, visited_coalitions, evaluated, tilim_hits,
                   call, solution, envs, run_vars>>

SelectMergeSplit == Select("merge_split")

SelectNash == Select("nash")

SelectPareto == Select("pareto")

SelectSocial == Select("social")

(***************************************************************************)
(* How the process ends: main returns a code, an exception that nothing    *)
(* catches ends in std::terminate, a wild write may kill the process.  The *)
(* code is that of the return statement, 0 otherwise.                      *)
(***************************************************************************)
Running == [how |-> "running", code |-> 0]

ReturnedFromMain(code) == [how |-> "returned", code |-> code]

Terminated == [how |-> "terminate", code |-> 0]

Killed == [how |-> "killed", code |-> 0]

(***************************************************************************)
(* A run of analyze_coalitions: the scenarios and options it starts from.  *)
(* One PM type of 2 W to 4 W, one VM type that takes half the CPU and half *)
(* the RAM of a PM; every amount of money is an even number of units.      *)
(***************************************************************************)
\* What one CIP owns: its PMs, their power states, its VMs.
CipProfiles ==
    UNION {[pms : {n}, states : [0..(n - 1) -> BOOLEAN], vms : 0..MaxVms] : n \in 0..MaxPms}

\* Cost of migrating a VM to another CIP: two CIPs that share one PM save
\* more than the migration and the switching off of the other PM cost.
MigrationCosts == {2}

\* Costs of switching a PM on and off.
TransitionCosts == {[awake |-> 2, asleep |-> 4]}

ScenarioOf(N, prof, migr, trans) ==
    [num_cips |-> N,
     num_pm_types |-> 1,
     num_vm_types |-> 1,
     cip_num_pms |-> [c \in 0..(N - 1) |-> [p \in {0} |-> prof[c].pms]],
     cip_num_vms |-> [c \in 0..(N - 1) |-> [v \in {0} |-> prof[c].vms]],
     cip_pm_power_states |-> [c \in 0..(N - 1) |-> prof[c].states],
     cip_revenues |-> [c \in 0..(N - 1) |-> [v \in {0} |-> 20]],
     cip_electricity_costs |-> [c \in 0..(N - 1) |-> 2],
     cip_pm_asleep_costs |-> [c \in 0..(N - 1) |-> [p \in {0} |-> trans.asleep]],
     cip_pm_awake_costs |-> [c \in 0..(N - 1) |-> [p \in {0} |-> trans.awake]],
     cip_to_cip_vm_migration_costs |->
        [c1 \in 0..(N - 1) |-> [c2 \in 0..(N - 1) |->
            [v \in {0} |-> IF c1 = c2 THEN 0 ELSE migr]]],
     pm_spec_min_powers |-> [p \in {0} |-> 2],
     pm_spec_max_powers |-> [p \in {0} |-> 4],
     vm_spec_cpus |-> [v \in {0} |-> [p \in {0} |-> 1]],
     vm_spec_rams |-> [v \in {0} |-> [p \in {0} |-> 1]]]

Scenarios ==
    UNION {{ScenarioOf(N, prof, migr, trans) :
                prof \in [0..(N - 1) -> CipProfiles],
                migr \in MigrationCosts,
                trans \in TransitionCosts} : N \in 1..MaxCips}

Options ==
    [opt_time_lim : {-1, 1},
     coalition_value_division : {"banzhaf", "norm_banzhaf", "shapley"}]

Init ==
    /\ pc = "analyze"
    /\ s \in Scenarios
    /\ opts \in Options
    /\ subset = analyze_subset(s)
    /\ game = << >>
    /\ visited_coalitions = << >>
    /\ evaluated = << >>
    /\ tilim_hits = 0
    /\ coalition_formation = "unread"
    /\ best_partitions = << >>
    /\ examined = << >>
    /\ call = << >>
    /\ solution = << >>
    /\ envs = 0
    /\ argv = << >>
    /\ scenario_file = << >>
    /\ scen = << >>
    /\ iteration = 0
    /\ csv = << >>
    /\ drawn = << >>
    /\ exit_status = Running
    /\ usage_printed = FALSE

Next ==
    \/ EvaluateCoalition
    \/ SolverThrows
    \/ SelectMergeSplit
    \/ SelectNash
    \/ SelectPareto
    \/ SelectSocial

Spec == Init /\ [][Next]_vars

(***************************************************************************)
(* A single call of find_optimal_allocation, with every solution the       *)
(* solver may hold when it stops; call.status keeps the solver's final     *)
(* status once the call has returned.  One CIP, one PM type, three VM types:   *)
(* type 0 takes half the CPU and half the RAM of a PM, type 1 takes        *)
(* nothing, type 2 takes half the CPU and all the RAM.                     *)
(***************************************************************************)
CallVmTypes == {0, 1, 2}

CallOf(npms, nvms, states, cats, tl) ==
    [ncips |-> 1,
     cips_electricity_cost |-> [c \in {0} |-> 2],
     npms |-> npms,
     pms_cip |-> [h \in 1..npms |-> 0],
     pms_category |-> [h \in 1..npms |-> 0],
     pm_specs_min_power |-> [p \in {0} |-> 2],
     pm_specs_max_power |-> [p \in {0} |-> 4],
     nvms |-> nvms,
     vms_cip |-> [v \in 1..nvms |-> 0],
     vms_category |-> cats,
     vm_specs_cpu |-> [v \in CallVmTypes |-> [p \in {0} |-> IF v = 1 THEN 0 ELSE 1]],
     vm_specs_ram |-> [v \in CallVmTypes |->
                          [p \in {0} |-> IF v = 1 THEN 0 ELSE IF v = 2 THEN ShareDen ELSE 1]],
     pm_power_states |-> states,
     cip_pm_asleep_costs |-> [c \in {0} |-> [p \in {0} |-> 4]],
     cip_pm_awake_costs |-> [c \in {0} |-> [p \in {0} |-> 2]],
     cip_to_cip_vm_migration_costs |->
        [c1 \in {0} |-> [c2 \in {0} |-> [v \in CallVmTypes |-> 0]]],
     min_power |-> FALSE,
     time_lim |-> tl,
     status |-> "none"]

\* The costs of switching a PM off: less and more than what a PM that idles
\* costs in energy (min power 2 at the price 2, times ShareDen).
CallAsleepCosts == {4, 10}

Calls ==
    UNION {UNION {{[CallOf(npms, nvms, states, cats, tl)
                        EXCEPT !.cip_pm_asleep_costs = [c \in {0} |-> [p \in {0} |-> off]]] :
                        states \in [1..npms -> BOOLEAN],
                        cats \in [1..nvms -> CallVmTypes],
                        tl \in {-1, 1},
                        off \in CallAsleepCosts} : nvms \in 0..MaxCallVms} : npms \in 0..MaxCallPms}

InitCall ==
    /\ pc = "call"
    /\ call \in Calls
    /\ solution = << >>
    /\ s = << >>
    /\ opts = << >>
    /\ subset = << >>
    /\ game = << >>
    /\ visited_coalitions = << >>
    /\ evaluated = << >>
    /\ tilim_hits = 0
    /\ coalition_formation = "unread"
    /\ best_partitions = << >>
    /\ examined = << >>
    /\ envs = 0
    /\ argv = << >>
    /\ scenario_file = << >>
    /\ scen = << >>
    /\ iteration = 0
    /\ csv = << >>
    /\ drawn = << >>
    /\ exit_status = Running
    /\ usage_printed = FALSE

\* find_optimal_allocation runs and returns.
SolveCall ==
    /\ pc = "call"
    /\ \E status \in SolverStatuses(call) :
          /\ \E sol \in (IF SolverAllocations(call, status) = {} THEN {NoAllocation}
                         ELSE SolverAllocations(call, status)) :
                solution' = find_optimal_allocation(call, status, sol)
          /\ envs' = envs + EnvsLeft(status)
          /\ call' = [call EXCEPT !.status = status]
    /\ pc' = "returned"
    /\ UNCHANGED <<s, opts, subset, game, visited_coalitions, evaluated, tilim_hits,
                   coalition_formation, best_partitions, examined, run_vars>>

\* find_optimal_allocation leaves by an exception of the solver back-end.
SolveCallThrows ==
    /\ pc = "call"
    /\ pc' = "thrown"
    /\ envs' = envs + 1
    /\ UNCHANGED <<s, opts, subset, game, visited_coalitions, evaluated, tilim_hits,
                   coalition_formation, best_partitions, examined, call, solution, run_vars>>

NextCall ==
    \/ SolveCall
    \/ SolveCallThrows

SpecCall == InitCall /\ [][NextCall]_vars

(***************************************************************************)
(* make_scenario.  A scenario file is the set of the lines it holds and    *)
(* the numbers on them; the parser returns a scenario or does not return.  *)
(***************************************************************************)
\* The line cip_to_cip_vm_migration_costs.  Both loops over the CIPs use the
\* name c, the row s.cip_to_cip_vm_migration_costs[c] is resized to
\* num_vm_types empty vectors, and each number is read into
\* s.cip_to_cip_vm_migration_costs[c][c][p], an element that no vector holds:
\* the write is out of bounds.  Either the process dies on it, or the write
\* lands outside the table and the table keeps the shape the resizes gave it.
parse_cip_to_cip_vm_migration_costs(f) ==
    IF f.num_cips > 0 /\ f.num_pm_types > 0
    THEN {[crashed |-> TRUE, table |-> << >>],
          [crashed |-> FALSE,
           table |-> [c \in 0..(f.num_cips - 1) |->
                         [v \in 0..(f.num_vm_types - 1) |-> << >>]]]}
    ELSE {[crashed |-> FALSE,
           table |-> [c \in 0..(f.num_cips - 1) |->
                         [v \in 0..(f.num_vm_types - 1) |-> << >>]]]}

\* The number of PMs of a CIP, all types together.
NumPms(sc, c) == SumOver(PmTypes(sc), [p \in PmTypes(sc) |-> sc.cip_num_pms[c][p]])

\* The defaults for the lines that the file does not hold.
DefaultPowerStates(f) ==
    [c \in 0..(f.num_cips - 1) |-> [k \in 0..(NumPms(f, c) - 1) |-> FALSE]]

DefaultTransitionCosts(f) ==
    [c \in 0..(f.num_cips - 1) |-> [p \in 0..(f.num_pm_types - 1) |-> 0]]

DefaultMigrationCosts(f) ==
    [c1 \in 0..(f.num_cips - 1) |-> [c2 \in 0..(f.num_cips - 1) |->
        [v \in 0..(f.num_vm_types - 1) |-> 0]]]

\* make_scenario(fname): what the call can end in.
make_scenario(f) ==
    LET given(line) == line \in f.lines
        base == [num_cips |-> f.num_cips,
                 num_pm_types |-> f.num_pm_types,
                 num_vm_types |-> f.num_vm_types,
                 cip_num_pms |-> f.cip_num_pms,
                 cip_num_vms |-> f.cip_num_vms,
                 cip_pm_power_states |->
                    IF given("cip_pm_power_states") THEN f.cip_pm_power_states
                    ELSE DefaultPowerStates(f),
                 cip_revenues |-> f.cip_revenues,
                 cip_electricity_costs |-> f.cip_electricity_costs,
                 cip_pm_asleep_costs |->
                    IF given("cip_pm_asleep_costs") THEN f.cip_pm_asleep_costs
                    ELSE DefaultTransitionCosts(f),
                 cip_pm_awake_costs |->
                    IF given("cip_pm_awake_costs") THEN f.cip_pm_awake_costs
                    ELSE DefaultTransitionCosts(f),
                 cip_to_cip_vm_migration_costs |-> DefaultMigrationCosts(f),
                 pm_spec_min_powers |-> f.pm_spec_min_powers,
                 pm_spec_max_powers |-> f.pm_spec_max_powers,
                 vm_spec_cpus |-> f.vm_spec_cpus,
                 vm_spec_rams |-> f.vm_spec_rams]
    IN IF given("cip_to_cip_vm_migration_costs")
       THEN {[crashed |-> out.crashed,
              scenario |-> [base EXCEPT !.cip_to_cip_vm_migration_costs = out.table]] :
                out \in parse_cip_to_cip_vm_migration_costs(f)}
       ELSE {[crashed |-> FALSE, scenario |-> base]}

(***************************************************************************)
(* A call of make_scenario on a file whose migration line holds a full     *)
(* N x N x V table.                                                        *)
(***************************************************************************)
MaxParseCips == 2
MaxParseTypes == 2

\* The numbers a table of the file may hold.
FileCosts == {0, 2}

ParseFileOf(N, P, V, table) ==
    [lines |-> {"num_cips", "num_pm_types", "num_vm_types", "cip_num_pms", "cip_num_vms",
                "cip_revenues", "cip_electricity_costs", "pm_spec_min_powers",
                "pm_spec_max_powers", "vm_spec_cpus", "vm_spec_rams",
                "cip_to_cip_vm_migration_costs"},
     num_cips |-> N,
     num_pm_types |-> P,
     num_vm_types |-> V,
     cip_num_pms |-> [c \in 0..(N - 1) |-> [p \in 0..(P - 1) |-> 1]],
     cip_num_vms |-> [c \in 0..(N - 1) |-> [v \in 0..(V - 1) |-> 1]],
     cip_pm_power_states |-> << >>,
     cip_revenues |-> [c \in 0..(N - 1) |-> [v \in 0..(V - 1) |-> 20]],
     cip_electricity_costs |-> [c \in 0..(N - 1) |-> 2],
     cip_pm_asleep_costs |-> << >>,
     cip_pm_awake_costs |-> << >>,
     cip_to_cip_vm_migration_costs |-> table,
     pm_spec_min_powers |-> [p \in 0..(P - 1) |-> 2],
     pm_spec_max_powers |-> [p \in 0..(P - 1) |-> 4],
     vm_spec_cpus |-> [v \in 0..(V - 1) |-> [p \in 0..(P - 1) |-> 1]],
     vm_spec_rams |-> [v \in 0..(V - 1) |-> [p \in 0..(P - 1) |-> 1]]]

ParseFiles ==
    UNION {UNION {UNION {{ParseFileOf(N, P, V, table) :
                table \in [0..(N - 1) -> [0..(N - 1) -> [0..(V - 1) -> FileCosts]]]} :
            V \in 1..MaxParseTypes} : P \in 1..MaxParseTypes} : N \in 1..MaxParseCips}

InitParse ==
    /\ pc = "parse"
    /\ scenario_file \in ParseFiles
    /\ s = << >>
    /\ opts = << >>
    /\ subset = << >>
    /\ game = << >>
    /\ visited_coalitions = << >>
    /\ evaluated = << >>
    /\ tilim_hits = 0
    /\ coalition_formation = "unread"
    /\ best_partitions = << >>
    /\ examined = << >>
    /\ call = << >>
    /\ solution = << >>
    /\ envs = 0
    /\ argv = << >>
    /\ scen = << >>
    /\ iteration = 0
    /\ csv = << >>
    /\ drawn = << >>
    /\ exit_status = Running
    /\ usage_printed = FALSE

\* scenario = make_scenario(opt_scenario_file)
MakeScenario ==
    /\ pc = "parse"
    /\ \E out \in make_scenario(scenario_file) :
          IF out.crashed
          THEN /\ pc' = "exited"
               /\ exit_status' = Killed
               /\ scen' = scen
          ELSE /\ pc' = "parsed"
               /\ exit_status' = exit_status
               /\ scen' = out.scenario
    /\ UNCHANGED <<s, opts, subset, game, visited_coalitions, evaluated, tilim_hits,
                   coalition_formation, best_partitions, examined, call, solution, envs,
                   argv, scenario_file, iteration, csv, drawn, usage_printed>>

NextParse == MakeScenario

SpecParse == InitParse /\ [][NextParse]_vars

(***************************************************************************)
(* main and run_experiment.  The command line is the value of each option  *)
(* ("absent", or a flag, when it is not given); --opt-relgap, --opt-tilim   *)
(* and --rnd-seed are left out, so the solver is exact and a random value  *)
(* is any value of its range.                                              *)
(***************************************************************************)
MaxNumIt == 2
MaxRunCips == 2
MaxRndGen == 1

\* cli::simple::get_option(begin, end, name, default)
get_option(given, value, default) == IF given THEN value ELSE default

\* The number of words of the command line.
argc(a) ==
    1 + (IF a.formation # "absent" THEN 2 ELSE 0)
      + (IF a.payoff # "absent" THEN 2 ELSE 0)
      + (IF a.scenario # "absent" THEN 2 ELSE 0)
      + (IF a.csv # "absent" THEN 2 ELSE 0)
      + (IF a.rnd_numit_given THEN 2 ELSE 0)
      + (IF a.help THEN 1 ELSE 0)
      + (IF a.rnd_genvms THEN 1 ELSE 0)
      + (IF a.rnd_genpmsonoff THEN 1 ELSE 0)
      + (IF a.rnd_genpmsonoffcosts THEN 1 ELSE 0)
      + (IF a.rnd_genvmsmigrcosts THEN 1 ELSE 0)

\* The tags that main knows, and the category each stands for.
formation_category(tag) ==
    IF tag = "merge-split" THEN "merge_split"
    ELSE IF tag \in {"nash", "pareto", "social"} THEN tag
    ELSE "unknown"

division_category(tag) ==
    IF tag = "norm-banzhaf" THEN "norm_banzhaf"
    ELSE IF tag \in {"banzhaf", "shapley"} THEN tag
    ELSE "unknown"

\* The options that main hands to run_experiment.
options(a) ==
    [opt_relative_gap |-> 0,
     opt_time_lim |-> -1,
     coalition_formation |-> formation_category(get_option(a.formation # "absent", a.formation, "nash")),
     coalition_value_division |-> division_category(get_option(a.payoff # "absent", a.payoff, "shapley")),
     rnd_gen_vms |-> a.rnd_genvms,
     rnd_gen_pm_power_states |-> a.rnd_genpmsonoff,
     rnd_gen_pm_on_off_costs |-> a.rnd_genpmsonoffcosts,
     rnd_gen_vm_migration_costs |-> a.rnd_genvmsmigrcosts,
     rnd_num_iters |-> get_option(a.rnd_numit_given, a.rnd_numit, 1),
     csv_fname |-> get_option(a.csv # "absent", a.csv, "")]

\* How main ends before run_experiment, Running if it does not.
main_outcome(a) ==
    IF argc(a) < 2 THEN [usage |-> TRUE, status |-> ReturnedFromMain(-1)]
    ELSE IF a.help THEN [usage |-> TRUE, status |-> ReturnedFromMain(0)]
    ELSE IF formation_category(get_option(a.formation # "absent", a.formation, "nash")) = "unknown"
         THEN [usage |-> FALSE, status |-> Terminated]
    ELSE IF division_category(get_option(a.payoff # "absent", a.payoff, "shapley")) = "unknown"
         THEN [usage |-> FALSE, status |-> Terminated]
    ELSE IF get_option(a.scenario # "absent", a.scenario, "") = ""
         THEN [usage |-> TRUE, status |-> ReturnedFromMain(-1)]
    ELSE [usage |-> FALSE, status |-> Running]

\* main up to the call of run_experiment.
Main ==
    /\ pc = "main"
    /\ LET out == main_outcome(argv)
       IN IF out.status # Running
          THEN /\ pc' = "exited"
               /\ exit_status' = out.status
               /\ usage_printed' = out.usage
               /\ UNCHANGED <<scen, opts>>
          ELSE \E parsed \in make_scenario(scenario_file) :
                  IF parsed.crashed
                  THEN /\ pc' = "exited"
                       /\ exit_status' = Killed
                       /\ UNCHANGED <<scen, opts, usage_printed>>
                  ELSE /\ pc' = "run_experiment"
                       /\ scen' = parsed.scenario
                       /\ opts' = options(argv)
                       /\ UNCHANGED <<exit_status, usage_printed>>
    /\ UNCHANGED <<s, subset, game, visited_coalitions, evaluated, tilim_hits,
                   coalition_formation, best_partitions, examined, call, solution, envs,
                   argv, scenario_file, iteration, csv, drawn>>

\* const std::size_t n = opts.rnd_gen_vms ? std::max(1, opts.rnd_num_iters) : 1
NumIterations(o) ==
    IF o.rnd_gen_vms THEN Max({1, o.rnd_num_iters}) ELSE 1

\* The switching and migration costs that a clipped normal variate may give.
RandomCosts == {0, 2}

\* The functions on the PMs of every CIP: one Bernoulli value per PM.
RandomPowerStates(sc) ==
    {f \in [Cips(sc) -> UNION {[0..(n - 1) -> BOOLEAN] :
                                  n \in 0..Max({NumPms(sc, c) : c \in Cips(sc)})}] :
        \A c \in Cips(sc) : DOMAIN f[c] = 0..(NumPms(sc, c) - 1)}

\* The random values that one iteration draws, << >> for what is not drawn.
Draws(sc, o) ==
    [vms : IF o.rnd_gen_vms
           THEN {f \in [Cips(sc) -> [VmTypes(sc) -> 0..Max({sc.cip_num_vms[c][v] :
                                       c \in Cips(sc), v \in VmTypes(sc)})]] :
                    \A c \in Cips(sc) : \A v \in VmTypes(sc) : f[c][v] <= sc.cip_num_vms[c][v]}
           ELSE {<< >>},
     pm_power_states : IF o.rnd_gen_pm_power_states THEN RandomPowerStates(sc) ELSE {<< >>},
     pm_on_off_costs : IF o.rnd_gen_pm_on_off_costs
                       THEN [Cips(sc) -> [PmTypes(sc) -> RandomCosts]]
                       ELSE {<< >>},
     vm_migration_costs : IF o.rnd_gen_vm_migration_costs
                          THEN {f \in [Cips(sc) -> [Cips(sc) -> [VmTypes(sc) -> RandomCosts \cup {0}]]] :
                                   \A c \in Cips(sc) : \A v \in VmTypes(sc) : f[c][c][v] = 0}
                          ELSE {<< >>}]

\* wrk_scen: the copy of the scenario with the drawn values put in.  The
\* drawn power states are pushed at the back of the states of the scenario.
WorkingScenario(sc, o, d) ==
    [sc EXCEPT
       !.cip_num_vms = IF o.rnd_gen_vms THEN d.vms ELSE @,
       !.cip_pm_power_states =
          IF o.rnd_gen_pm_power_states
          THEN [c \in Cips(sc) |->
                  [k \in 0..(2 * NumPms(sc, c) - 1) |->
                      IF k < NumPms(sc, c) THEN sc.cip_pm_power_states[c][k]
                      ELSE d.pm_power_states[c][k - NumPms(sc, c)]]]
          ELSE @,
       !.cip_pm_asleep_costs = IF o.rnd_gen_pm_on_off_costs THEN d.pm_on_off_costs ELSE @,
       !.cip_pm_awake_costs = IF o.rnd_gen_pm_on_off_costs THEN d.pm_on_off_costs ELSE @,
       !.cip_to_cip_vm_migration_costs =
          IF o.rnd_gen_vm_migration_costs THEN d.vm_migration_costs ELSE @]

\* The loop "while (subset.has_next())" of analyze_coalitions with the exact
\* solver, from the enumerator state e on.
RECURSIVE analyze_loop(_, _, _, _)
analyze_loop(sc, o, e, st) ==
    IF ~subset_has_next(e) THEN st
    ELSE LET ns == next_subset(cips_vector(sc), e)
             coal_cips == Sorted(ns.chosen)
             c == SolverCall(sc, o, coal_cips)
             status == CHOOSE x \in SolverStatuses(c) : TRUE
             sol == CHOOSE x \in AllocationsByCost(c, status) : TRUE
             ev == Evaluated(sc, o, st.game, st.visited_coalitions, coal_cips, status, sol)
         IN analyze_loop(sc, o, ns.after,
                         [game |-> ev.game,
                          visited_coalitions |-> ev.visited_coalitions,
                          evaluated |-> Append(st.evaluated, make_id(ns.chosen)),
                          envs |-> st.envs + EnvsLeft(status)])

\* report(ncips, formed_coalitions) prints; what it looks up with at() must
\* be there, or it throws std::out_of_range.
report_throws(ncips, coalitions, best) ==
    LET gcid == make_id(0..(ncips - 1))
    IN \/ \E i \in 1..Len(best) : \E cid \in best[i].coalitions :
             \E pid \in DOMAIN coalitions[cid].payoffs :
                \/ pid \notin DOMAIN coalitions[gcid].payoffs
                \/ pid \notin DOMAIN coalitions[make_id({pid})].payoffs
       \/ \E c \in 0..(ncips - 1) : c \notin DOMAIN coalitions[make_id({c})].payoffs

\* One row of the CSV file for a coalition: the id, the payoff of each CIP
\* that has one (an empty field otherwise) and the sum of these payoffs.
CsvRow(ncips, coalitions, cid) ==
    LET with_payoff == {p \in 0..(ncips - 1) : p \in DOMAIN coalitions[cid].payoffs}
    IN [kind |-> "row",
        columns |-> ncips + 2,
        cid |-> cid,
        payoffs |-> [p \in with_payoff |-> coalitions[cid].payoffs[p]],
        value |-> SumReal(with_payoff, [p \in with_payoff |-> coalitions[cid].payoffs[p]])]

\* Mutant of export_csv: the header is written in every block.
export_csv_header_always(old, ncips, coalitions, append) ==
    LET cids == Sorted(DOMAIN coalitions)
    IN (IF append THEN old ELSE << >>)
       \o <<[kind |-> "header", columns |-> ncips + 2]>>
       \o [c \in 1..Len(cids) |-> CsvRow(ncips, coalitions, cids[c])]

\* export_csv(fname, ncips, formed_coalitions, append): the rows of the file
\* after the call, old being its rows before.
export_csv(old, ncips, coalitions, append) ==
    LET cids == Sorted(DOMAIN coalitions)
    IN (IF append
        THEN old \o <<[kind |-> "blank", columns |-> ncips + 1]>>
        ELSE <<[kind |-> "header", columns |-> ncips + 2]>>)
       \o [c \in 1..Len(cids) |-> CsvRow(ncips, coalitions, cids[c])]

\* The body of the loop "for (i = 1; i <= n; ++i)" of run_experiment.
Iteration ==
    /\ pc = "run_experiment"
    /\ iteration < NumIterations(opts)
    /\ \E d \in Draws(scen, opts) : \E junk \in Uninitialized :
       \E wrk_scen \in {WorkingScenario(scen, opts, d)} :
       \E an \in {analyze_loop(wrk_scen, opts, analyze_subset(wrk_scen),
                                [game |-> << >>, visited_coalitions |-> << >>,
                                 evaluated |-> << >>, envs |-> envs])} :
       \E st \in {SelectorLoop(opts.coalition_formation,
                               lexicographic_partition(wrk_scen.num_cips),
                               an.visited_coalitions, wrk_scen.num_cips,
                               SelectorStart(wrk_scen.num_cips, junk))} :
          LET i == iteration + 1
          IN /\ iteration' = i
             /\ drawn' = d
             /\ s' = wrk_scen
             /\ game' = an.game
             /\ visited_coalitions' = an.visited_coalitions
             /\ evaluated' = an.evaluated
             /\ envs' = an.envs
             /\ coalition_formation' = opts.coalition_formation
             /\ best_partitions' = st.best_partitions
             /\ examined' = st.examined
             /\ IF report_throws(wrk_scen.num_cips, an.visited_coalitions, st.best_partitions)
                THEN /\ pc' = "exited"
                     /\ exit_status' = Terminated
                     /\ csv' = csv
                ELSE /\ pc' = pc
                     /\ exit_status' = exit_status
                     /\ csv' = IF opts.csv_fname # ""
                               THEN export_csv(csv, wrk_scen.num_cips,
                                               an.visited_coalitions, i > 1)
                               ELSE csv
    /\ UNCHANGED <<opts, subset, tilim_hits, call, solution,
                   argv, scenario_file, scen, usage_printed>>

\* The loop is over: "DONE!", and main returns.
Finish ==
    /\ pc = "run_experiment"
    /\ iteration >= NumIterations(opts)
    /\ pc' = "exited"
    /\ exit_status' = ReturnedFromMain(0)
    /\ UNCHANGED <<s, opts, subset, game, visited_coalitions, evaluated, tilim_hits,
                   coalition_formation, best_partitions, examined, call, solution, envs,
                   argv, scenario_file, scen, iteration, csv, drawn, usage_printed>>

\* The scenario files of the runs: up to MaxRunCips CIPs that each have VMs
\* to place, with or without the line of the power states, without the line
\* of the migration costs.
RunProfiles == {prof \in CipProfiles : prof.vms > 0}

RunFileOf(N, prof, power_states_line) ==
    LET sc == ScenarioOf(N, prof, 0, [awake |-> 2, asleep |-> 4])
    IN [lines |-> {"num_cips", "num_pm_types", "num_vm_types", "cip_num_pms", "cip_num_vms",
                   "cip_revenues", "cip_electricity_costs", "cip_pm_asleep_costs",
                   "cip_pm_awake_costs", "pm_spec_min_powers", "pm_spec_max_powers",
                   "vm_spec_cpus", "vm_spec_rams"}
                  \cup (IF power_states_line THEN {"cip_pm_power_states"} ELSE {}),
        num_cips |-> sc.num_cips,
        num_pm_types |-> sc.num_pm_types,
        num_vm_types |-> sc.num_vm_types,
        cip_num_pms |-> sc.cip_num_pms,
        cip_num_vms |-> sc.cip_num_vms,
        cip_pm_power_states |-> IF power_states_line THEN sc.cip_pm_power_states ELSE << >>,
        cip_revenues |-> sc.cip_revenues,
        cip_electricity_costs |-> sc.cip_electricity_costs,
        cip_pm_asleep_costs |-> sc.cip_pm_asleep_costs,
        cip_pm_awake_costs |-> sc.cip_pm_awake_costs,
        cip_to_cip_vm_migration_costs |-> << >>,
        pm_spec_min_powers |-> sc.pm_spec_min_powers,
        pm_spec_max_powers |-> sc.pm_spec_max_powers,
        vm_spec_cpus |-> sc.vm_spec_cpus,
        vm_spec_rams |-> sc.vm_spec_rams]

RunFiles ==
    UNION {{RunFileOf(N, prof, line) :
                prof \in [0..(N - 1) -> RunProfiles], line \in BOOLEAN} : N \in 1..MaxRunCips}

\* The command lines: every way of giving or not giving --formation,
\* --payoff, --scenario and --help, and, for the default criterion and
\* each division, --csv, --rnd-numit and up to MaxRndGen of the --rnd-gen*
\* options.
CommandLines ==
    [formation : {"absent", "merge-split", "nash", "pareto", "social", "bogus"},
     payoff : {"absent", "banzhaf", "norm-banzhaf", "shapley", "bogus"},
     scenario : {"absent", "scenario.txt"},
     help : BOOLEAN,
     csv : {"absent"},
     rnd_numit_given : {FALSE},
     rnd_numit : {1},
     rnd_genvms : {FALSE},
     rnd_genpmsonoff : {FALSE},
     rnd_genpmsonoffcosts : {FALSE},
     rnd_genvmsmigrcosts : {FALSE}]
    \cup
    {a \in [formation : {"absent"},
            payoff : {"absent", "banzhaf", "norm-banzhaf"},
            scenario : {"scenario.txt"},
            help : {FALSE},
            csv : {"absent", "out.csv"},
            rnd_numit_given : BOOLEAN,
            rnd_numit : 1..MaxNumIt,
            rnd_genvms : BOOLEAN,
            rnd_genpmsonoff : BOOLEAN,
            rnd_genpmsonoffcosts : BOOLEAN,
            rnd_genvmsmigrcosts : BOOLEAN] :
        /\ Cardinality({o \in {"vms", "pmsonoff", "pmsonoffcosts", "vmsmigrcosts"} :
                        \/ o = "vms" /\ a.rnd_genvms
                        \/ o = "pmsonoff" /\ a.rnd_genpmsonoff
                        \/ o = "pmsonoffcosts" /\ a.rnd_genpmsonoffcosts
                        \/ o = "vmsmigrcosts" /\ a.rnd_genvmsmigrcosts}) <= MaxRndGen
        /\ (~a.rnd_numit_given => a.rnd_numit = 1)}

\* What the CSV file may hold before the run.
StaleCsv == {<< >>, <<[kind |-> "stale", columns |-> 1]>>}

InitRun ==
    /\ pc = "main"
    /\ argv \in CommandLines
    /\ scenario_file \in RunFiles
    /\ csv \in (IF argv.csv = "absent" THEN {<< >>} ELSE StaleCsv)
    /\ s = << >>
    /\ opts = << >>
    /\ subset = << >>
    /\ game = << >>
    /\ visited_coalitions = << >>
    /\ evaluated = << >>
    /\ tilim_hits = 0
    /\ coalition_formation = "unread"
    /\ best_partitions = << >>
    /\ examined = << >>
    /\ call = << >>
    /\ solution = << >>
    /\ envs = 0
    /\ scen = << >>
    /\ iteration = 0
    /\ drawn = << >>
    /\ exit_status = Running
    /\ usage_printed = FALSE

NextRun ==
    \/ Main
    \/ Iteration
    \/ Finish

SpecRun == InitRun /\ [][NextRun]_vars

(***************************************************************************)
(* The arguments that analyze_coalitions builds for the solver, for the    *)
(* coalitions of scenarios whose CIPs own PMs of up to MaxPmTypes types,   *)
(* up to MaxPms of each, in every power state.                             *)
(***************************************************************************)
MaxAssembleCips == 2
MaxPmTypes == 2

\* What one CIP owns: the number of PMs of each type and the power state of
\* each PM, in the order of cip_pm_power_states.
TypedProfiles(P) ==
    UNION {[pms : {n}, states : [0..(SumOver(0..(P - 1), n) - 1) -> BOOLEAN]] :
              n \in [0..(P - 1) -> 0..MaxPms]}

TypedScenarioOf(N, P, prof) ==
    [num_cips |-> N,
     num_pm_types |-> P,
     num_vm_types |-> 1,
     cip_num_pms |-> [c \in 0..(N - 1) |-> prof[c].pms],
     cip_num_vms |-> [c \in 0..(N - 1) |-> [v \in {0} |-> 1]],
     cip_pm_power_states |-> [c \in 0..(N - 1) |-> prof[c].states],
     cip_revenues |-> [c \in 0..(N - 1) |-> [v \in {0} |-> 20]],
     cip_electricity_costs |-> [c \in 0..(N - 1) |-> 2],
     cip_pm_asleep_costs |-> [c \in 0..(N - 1) |-> [p \in 0..(P - 1) |-> 4]],
     cip_pm_awake_costs |-> [c \in 0..(N - 1) |-> [p \in 0..(P - 1) |-> 2]],
     cip_to_cip_vm_migration_costs |->
        [c1 \in 0..(N - 1) |-> [c2 \in 0..(N - 1) |->
            [v \in {0} |-> IF c1 = c2 THEN 0 ELSE 2]]],
     pm_spec_min_powers |-> [p \in 0..(P - 1) |-> 2],
     pm_spec_max_powers |-> [p \in 0..(P - 1) |-> 4],
     vm_spec_cpus |-> [v \in {0} |-> [p \in 0..(P - 1) |-> 1]],
     vm_spec_rams |-> [v \in {0} |-> [p \in 0..(P - 1) |-> 1]]]

TypedScenarios ==
    UNION {UNION {{TypedScenarioOf(N, P, prof) : prof \in [0..(N - 1) -> TypedProfiles(P)]} :
              P \in 1..MaxPmTypes} : N \in 1..MaxAssembleCips}

InitAssemble ==
    /\ pc = "analyze"
    /\ s \in TypedScenarios
    /\ opts \in {o \in Options : o.opt_time_lim = -1 /\ o.coalition_value_division = "shapley"}
    /\ subset = analyze_subset(s)
    /\ game = << >>
    /\ visited_coalitions = << >>
    /\ evaluated = << >>
    /\ tilim_hits = 0
    /\ coalition_formation = "unread"
    /\ best_partitions = << >>
    /\ examined = << >>
    /\ call = << >>
    /\ solution = << >>
    /\ envs = 0
    /\ argv = << >>
    /\ scenario_file = << >>
    /\ scen = << >>
    /\ iteration = 0
    /\ csv = << >>
    /\ drawn = << >>
    /\ exit_status = Running
    /\ usage_printed = FALSE

\* The loop body up to the call of find_optimal_allocation: the next subset
\* and the arrays built for it.
AssembleCall ==
    /\ pc = "analyze"
    /\ subset_has_next(subset)
    /\ LET ns == next_subset(cips_vector(s), subset)
       IN /\ call' = SolverCall(s, opts, Sorted(ns.chosen))
          /\ evaluated' = Append(evaluated, make_id(ns.chosen))
          /\ subset' = ns.after
    /\ UNCHANGED <<pc, s, opts, game, visited_coalitions, tilim_hits, coalition_formation,
                   best_partitions, examined, solution, envs, run_vars>>

NextAssemble == AssembleCall

SpecAssemble == InitAssemble /\ [][NextAssemble]_vars

(***************************************************************************)
(* analyze_coalitions on two literal scenarios: two CIPs, each with one PM *)
(* that is on and one VM; PMs of 100 W to 200 W, a VM takes half the CPU   *)
(* and half the RAM of a PM, electricity at 1 $/kWh, 1 $/h of revenue per  *)
(* VM, no cost to switch a PM.  Moving a VM to the other CIP is free in    *)
(* the first scenario and costs 10 $ in the second.  A dollar is           *)
(* 1000 * ShareDen units of money.                                         *)
(***************************************************************************)
Dollar == 1000 * ShareDen

LiteralMigrationCosts == {0, 10 * Dollar}

LiteralScenario(migr) ==
    [ScenarioOf(2, [c \in 0..1 |-> [pms |-> 1, states |-> [k \in {0} |-> TRUE], vms |-> 1]],
                migr, [awake |-> 0, asleep |-> 0])
        EXCEPT !.cip_revenues = [c \in 0..1 |-> [v \in {0} |-> Dollar]],
               !.cip_electricity_costs = [c \in 0..1 |-> 1],
               !.pm_spec_min_powers = [p \in {0} |-> 100],
               !.pm_spec_max_powers = [p \in {0} |-> 200]]

InitLiteral ==
    /\ pc = "analyze"
    /\ s \in {LiteralScenario(migr) : migr \in LiteralMigrationCosts}
    /\ opts \in Options
    /\ subset = analyze_subset(s)
    /\ game = << >>
    /\ visited_coalitions = << >>
    /\ evaluated = << >>
    /\ tilim_hits = 0
    /\ coalition_formation = "unread"
    /\ best_partitions = << >>
    /\ examined = << >>
    /\ call = << >>
    /\ solution = << >>
    /\ envs = 0
    /\ argv = << >>
    /\ scenario_file = << >>
    /\ scen = << >>
    /\ iteration = 0
    /\ csv = << >>
    /\ drawn = << >>
    /\ exit_status = Running
    /\ usage_printed = FALSE

SpecLiteral == InitLiteral /\ [][Next]_vars

(***************************************************************************)
(* analyze_coalitions on scenarios whose CIPs pay different prices for     *)
(* electricity, with a migration that is free or dearer than a VM's        *)
(* revenue and a switching of PMs that is free or dearer than running one. *)
(* The solver is exact and the division is the default one.                *)
(***************************************************************************)
ElectricityCosts == {1, 3}

DearMigrationCosts == {0, 40}

DearTransitionCosts == {[awake |-> 0, asleep |-> 0], [awake |-> 30, asleep |-> 30]}

PricedScenarios ==
    UNION {{[ScenarioOf(N, prof, migr, trans) EXCEPT !.cip_electricity_costs = price] :
                prof \in [0..(N - 1) -> CipProfiles],
                migr \in DearMigrationCosts,
                trans \in DearTransitionCosts,
                price \in [0..(N - 1) -> ElectricityCosts]} : N \in 2..MaxCips}

InitPriced ==
    /\ pc = "analyze"
    /\ s \in PricedScenarios
    /\ opts \in {o \in Options : o.opt_time_lim = -1 /\ o.coalition_value_division = "shapley"}
    /\ subset = analyze_subset(s)
    /\ game = << >>
    /\ visited_coalitions = << >>
    /\ evaluated = << >>
    /\ tilim_hits = 0
    /\ coalition_formation = "unread"
    /\ best_partitions = << >>
    /\ examined = << >>
    /\ call = << >>
    /\ solution = << >>
    /\ envs = 0
    /\ argv = << >>
    /\ scenario_file = << >>
    /\ scen = << >>
    /\ iteration = 0
    /\ csv = << >>
    /\ drawn = << >>
    /\ exit_status = Running
    /\ usage_printed = FALSE

SpecPriced == InitPriced /\ [][Next]_vars

(***************************************************************************)
(* Properties.                                                             *)
(***************************************************************************)
\* The value the game holds for the coalition of the players S.
ValueOf(S) == GameValue(game, make_id(S))

\* The total value of a family of coalitions.
TotalValue(F) == SumReal(F, [b \in F |-> ValueOf(b)])

\* The selector returned the partition P of the players.
Returned(P) ==
    \E i \in 1..Len(best_partitions) :
        best_partitions[i].coalitions = {make_id(b) : b \in P}

\* analyze_coalitions has returned after running the selector of a formation.
Done(formation) == pc = "done" /\ coalition_formation = formation

\* The non-empty subsets of the players of the scenario.
Coalitions == (SUBSET Cips(s)) \ {{}}

\* The number of times a cid was evaluated.
TimesEvaluated(cid) == Cardinality({i \in 1..Len(evaluated) : evaluated[i] = cid})

\* C1: when analyze_coalitions returns, the coalition table holds exactly
\* 2^N - 1 entries, one per non-empty subset of the players, keyed by the
\* bitmask of its members (ids in 1..2^N - 1, 2^p for the singleton {p},
\* 2^N - 1 for the grand coalition); each subset was evaluated exactly once
\* and the empty set never.
C1_TableOfCoalitions ==
    pc = "done" =>
        /\ Cardinality(DOMAIN visited_coalitions) = Pow2(s.num_cips) - 1
        /\ DOMAIN visited_coalitions = 1..(Pow2(s.num_cips) - 1)
        /\ DOMAIN visited_coalitions = {make_id(S) : S \in Coalitions}
        /\ \A S \in Coalitions : TimesEvaluated(make_id(S)) = 1
        /\ \A S \in Coalitions : \A T \in Coalitions : make_id(S) = make_id(T) => S = T
        /\ Len(evaluated) = Pow2(s.num_cips) - 1
        /\ TimesEvaluated(0) = 0
        /\ \A p \in Cips(s) : make_id({p}) = Pow2(p)
        /\ make_id(Cips(s)) = Pow2(s.num_cips) - 1

C1_Witness ==
    /\ pc = "done"
    /\ s.num_cips = MaxCips
    /\ Len(evaluated) = Pow2(MaxCips) - 1

\* profit(S): the sum over the members p of S and the VM types t of
\* r(p, t) * nVMs(p, t).
Profit(S) ==
    SumOver(S \X VmTypes(s),
            [m \in S \X VmTypes(s) |-> s.cip_revenues[m[1]][m[2]] * s.cip_num_vms[m[1]][m[2]]])

\* C2: for every coalition whose placement problem is solved, the value in
\* the game and in the coalition's record is profit(S) - cost(S), cost(S)
\* being the cost the placement solver reported.
C2_ValueIsProfitMinusCost ==
    \A S \in Coalitions :
        (make_id(S) \in DOMAIN visited_coalitions
           /\ visited_coalitions[make_id(S)].optimal_allocation.solved)
        => LET rec == visited_coalitions[make_id(S)]
               expected == Minus(FromInt(Profit(S)), rec.optimal_allocation.cost)
           IN /\ IsFinite(expected)
              /\ rec.value = expected
              /\ game[make_id(S)] = expected

C2_Witness ==
    \E S \in Coalitions :
        /\ Cardinality(S) >= 2
        /\ make_id(S) \in DOMAIN visited_coalitions
        /\ visited_coalitions[make_id(S)].optimal_allocation.solved
        /\ Greater(visited_coalitions[make_id(S)].optimal_allocation.cost, FromInt(0))
        /\ Profit(S) > 0
        /\ visited_coalitions[make_id(S)].value =
              Minus(FromInt(Profit(S)), visited_coalitions[make_id(S)].optimal_allocation.cost)

\* C3: for every coalition whose placement problem is not solved, the value
\* is the sentinel -epsilon, in the game and in the coalition's record, which
\* is what the partition selectors read.
C3_SentinelRecorded ==
    \A cid \in DOMAIN visited_coalitions :
        ~visited_coalitions[cid].optimal_allocation.solved
        => /\ game[cid] = FromInt(-MinNormal)
           /\ visited_coalitions[cid].value = FromInt(-MinNormal)

\* The VMs that the returned allocation places on the PM h.
Hosted(h) == {vm \in VMsOf(call) : solution.pm_vm_allocations[h][vm]}

\* C4: an allocation returned with solved = true assigns each VM to exactly
\* one PM, powers on every PM that hosts a VM (also a VM that requires no
\* CPU and no RAM), and keeps on each PM the RAM shares and the CPU shares of
\* its VMs within 1, and at 0 when the PM is off.
C4_AllocationIsValid ==
    (pc = "returned" /\ solution.solved) =>
        /\ \A vm \in VMsOf(call) :
              Cardinality({h \in PMsOf(call) : solution.pm_vm_allocations[h][vm]}) = 1
        /\ \A h \in PMsOf(call) :
              /\ Hosted(h) # {} => solution.pm_power_states[h]
              /\ SumOver(Hosted(h), [vm \in VMsOf(call) |->
                     call.vm_specs_ram[call.vms_category[vm]][call.pms_category[h]]])
                   <= (IF solution.pm_power_states[h] THEN ShareDen ELSE 0)
              /\ SumOver(Hosted(h), [vm \in VMsOf(call) |->
                     call.vm_specs_cpu[call.vms_category[vm]][call.pms_category[h]]])
                   <= (IF solution.pm_power_states[h] THEN ShareDen ELSE 0)

C4_Witness ==
    /\ pc = "returned"
    /\ solution.solved
    /\ call.npms = MaxCallPms
    /\ call.nvms = MaxCallVms
    /\ \E vm \in VMsOf(call) : call.vms_category[vm] = 1
    /\ \E h \in PMsOf(call) : ~solution.pm_power_states[h]
    /\ \E h \in PMsOf(call) : Cardinality(Hosted(h)) = 2

\* The payoff that the coalition S records for its member p, NaN if none.
Payoff(p, S) ==
    LET rec == visited_coalitions[make_id(S)]
    IN IF p \in DOMAIN rec.payoffs THEN rec.payoffs[p] ELSE NaN

\* No player p, in the coalition Pk of P, gets less than in Pj + p for
\* another coalition Pj of P, or than alone.
NashCondition(P) ==
    \A p \in Cips(s) :
        LET Pk == BlockOf(P, p)
        IN \A Pj \in (P \ {Pk}) \cup (IF Pk = {p} THEN {} ELSE {{}}) :
              GreaterEqual(Payoff(p, Pk), Payoff(p, Pj \cup {p}))

\* The Nash selector returned exactly the partitions that meet the condition.
NashIff ==
    Done("nash") =>
        \A P \in SetPartitions(Cips(s)) : Returned(P) <=> NashCondition(P)

\* C5: the Nash selector returns a partition if and only if every player's
\* payoff in its coalition is >= its payoff in every other coalition of the
\* partition joined by the player, and >= its payoff alone; stated for the
\* runs that divide the values by the Shapley rule.
C5_NashIff ==
    opts.coalition_value_division = "shapley" => NashIff

\* No coalition of P wants to split: it is worth at least as much as every
\* partition of its players.
SplitCondition(P) ==
    \A Pi \in P : \A C \in SetPartitions(Pi) : GreaterEqual(ValueOf(Pi), TotalValue(C))

\* No coalitions of P want to merge: every non-empty family of them is worth
\* at least as much as the coalition of all their players.
MergeCondition(P) ==
    \A F \in (SUBSET P) \ {{}} : GreaterEqual(TotalValue(F), ValueOf(UNION F))

\* Every coalition of the scenario was solved.
AllSolved ==
    \A cid \in DOMAIN visited_coalitions : visited_coalitions[cid].optimal_allocation.solved

\* C6: a partition that the merge/split selector returns has no coalition
\* that is worth less than some partition of its players; stated for the
\* runs in which every coalition is solved.
C6_NoCoalitionSplits ==
    (Done("merge_split") /\ AllSolved) =>
        \A P \in SetPartitions(Cips(s)) : Returned(P) => SplitCondition(P)

\* C7: a partition that the merge/split selector returns has no family of
\* coalitions worth less than their union, and every partition that meets
\* the split and the merge condition is returned.
C7_NoCoalitionsMerge ==
    Done("merge_split") =>
        \A P \in SetPartitions(Cips(s)) :
            /\ Returned(P) => MergeCondition(P)
            /\ (SplitCondition(P) /\ MergeCondition(P)) => Returned(P)

\* C8: the social-optimum selector returns exactly the partitions whose total
\* value is the maximum over all partitions, and never nothing.
C8_SocialOptimum ==
    Done("social") =>
        /\ Len(best_partitions) > 0
        /\ \A P \in SetPartitions(Cips(s)) :
              Returned(P) <=>
                 \A Q \in SetPartitions(Cips(s)) : GreaterEqual(TotalValue(P), TotalValue(Q))

\* The candidate of an iteration exceeds the running vector for the player p.
Exceeds(e, p) ==
    isnan(e.best_payoffs[p]) \/ Greater(e.candidate.payoffs[p], e.best_payoffs[p])

\* C9: the Pareto selector accepts a partition exactly when its payoff is
\* strictly greater than the running best-payoff vector for every player, a
\* component not yet set counting as exceeded; the first partition is always
\* accepted.
C9_ParetoScan ==
    Done("pareto") =>
        /\ Len(examined) = Cardinality(SetPartitions(Cips(s)))
        /\ examined[1].accepted
        /\ \A i \in 1..Len(examined) :
              /\ examined[i].accepted <=> \A p \in Cips(s) : Exceeds(examined[i], p)
              /\ examined[i].accepted <=>
                    \E k \in 1..Len(best_partitions) :
                        best_partitions[k] = examined[i].candidate

C9_Witness ==
    /\ Done("pareto")
    /\ \E i \in 2..Len(examined) :
          /\ examined[i].accepted
          /\ \A p \in Cips(s) : IsFinite(examined[i].best_payoffs[p])
    /\ \E i \in 2..Len(examined) :
          /\ ~examined[i].accepted
          /\ \E p \in Cips(s) : Exceeds(examined[i], p)

\* The sum of the payoffs that the coalition S records.
PayoffSum(S) ==
    SumReal(S, [p \in S |-> Payoff(p, S)])

\* The coalition S is solved and has its record.
Solved(S) ==
    /\ make_id(S) \in DOMAIN visited_coalitions
    /\ visited_coalitions[make_id(S)].optimal_allocation.solved

C11_PayoffsInCore ==
    \A S \in Coalitions :
        (make_id(S) \in DOMAIN visited_coalitions
           /\ visited_coalitions[make_id(S)].payoffs_in_core)
        => /\ \A T \in (SUBSET S) \ {{}} :
                 GreaterEqual(SumReal(T, [p \in T |-> Payoff(p, S)]), ValueOf(T))
           /\ Equal(PayoffSum(S), ValueOf(S))
           /\ ~visited_coalitions[make_id(S)].core_empty

C11_Witness ==
    \E S \in Coalitions : \E R \in Coalitions :
        /\ Cardinality(S) >= 2
        /\ Solved(S) /\ Solved(R)
        /\ visited_coalitions[make_id(S)].payoffs_in_core
        /\ Greater(ValueOf(S), TotalValue({{p} : p \in S}))
        /\ ~visited_coalitions[make_id(R)].core_empty
        /\ ~visited_coalitions[make_id(R)].payoffs_in_core

\* C12: when the placement problem of some coalition of an iteration is
\* infeasible, that coalition is recorded with core_empty = true and
\* payoffs_in_core = false, every coalition is evaluated, the selector of the
\* chosen criterion has run, and the iteration gets through the report and
\* the CSV export without an error ending the run.
C12_InfeasibilityNonFatal ==
    (iteration >= 1
       /\ \E cid \in DOMAIN visited_coalitions :
             ~visited_coalitions[cid].optimal_allocation.solved)
    => /\ \A cid \in DOMAIN visited_coalitions :
             ~visited_coalitions[cid].optimal_allocation.solved
                => /\ visited_coalitions[cid].core_empty
                   /\ ~visited_coalitions[cid].payoffs_in_core
       /\ DOMAIN visited_coalitions = 1..(Pow2(s.num_cips) - 1)
       /\ coalition_formation = opts.coalition_formation
       /\ exit_status.how # "terminate"
       /\ (argv.csv # "absent" => Len(csv) = iteration * Pow2(s.num_cips))

\* C13: a call of find_optimal_allocation whose solver status is neither
\* Optimal nor Feasible returns solved = false and optimal = false, and every
\* returned record with optimal = true has solved = true.
C13_UnsolvedOnOtherStatus ==
    pc = "returned" =>
        /\ call.status \notin {"Optimal", "Feasible"}
              => (~solution.solved /\ ~solution.optimal)
        /\ solution.optimal => solution.solved

C13_Witness ==
    /\ pc = "returned"
    /\ call.status = "InfeasibleOrUnbounded"
    /\ call.nvms = MaxCallVms
    /\ ~solution.solved

\* C14: the solver environment that find_optimal_allocation creates is
\* released on every way out of the call (a solution, a status without a
\* solution, an exception of the back-end): none is left allocated.
C14_EnvironmentReleased ==
    envs = 0

\* C15: a command line (without --help) that has an unknown --formation tag,
\* an unknown --payoff tag or no --scenario option ends the program with
\* the usage printed and the exit status -1, no scenario parsed and no
\* coalition evaluated.
C15_InvalidCommandLine ==
    (pc = "exited"
       /\ ~argv.help
       /\ (argv.formation = "bogus" \/ argv.payoff = "bogus" \/ argv.scenario = "absent"))
    => /\ usage_printed
       /\ exit_status = ReturnedFromMain(-1)
       /\ scen = << >>
       /\ visited_coalitions = << >>

\* C16: after k >= 1 iterations that wrote the CSV file, the file is k blocks
\* of one leading row and one row per coalition: the leading row of the
\* first block is the header and nothing of the old file comes before it,
\* the leading row of each later block is a blank row of N+1 columns, no
\* header comes later, and the rows of a block are the coalitions 1..2^N-1
\* in ascending order of id.
C16_CsvBlocks ==
    (iteration >= 1 /\ argv.csv # "absent" /\ exit_status.how # "terminate")
    => LET N == s.num_cips
           rows == Pow2(N) - 1
           first(b) == (b - 1) * (rows + 1) + 1
       IN /\ Len(csv) = iteration * (rows + 1)
          /\ csv[1] = [kind |-> "header", columns |-> N + 2]
          /\ \A b \in 2..iteration :
                csv[first(b)] = [kind |-> "blank", columns |-> N + 1]
          /\ \A b \in 1..iteration : \A j \in 1..rows :
                /\ csv[first(b) + j].kind = "row"
                /\ csv[first(b) + j].cid = j
                /\ csv[first(b) + j].columns = N + 2
          /\ \A j \in 1..rows :
                csv[first(iteration) + j] = CsvRow(N, visited_coalitions, j)
          /\ DOMAIN visited_coalitions = 1..rows

C16_Witness ==
    /\ pc = "exited"
    /\ exit_status = ReturnedFromMain(0)
    /\ iteration = MaxNumIt
    /\ s.num_cips = MaxRunCips
    /\ Len(csv) = MaxNumIt * Pow2(MaxRunCips)
    /\ csv[Pow2(MaxRunCips) + 1].kind = "blank"
    /\ \E j \in 1..(Pow2(MaxRunCips) - 1) :
          csv[j + 1] # csv[Pow2(MaxRunCips) + 1 + j]

\* C17: a run with --rnd-numit num that ends normally has made exactly num
\* iterations, whichever --rnd-gen* options are given.
C17_NumIterations ==
    (pc = "exited"
       /\ exit_status = ReturnedFromMain(0)
       /\ ~argv.help
       /\ argv.rnd_numit_given)
    => iteration = argv.rnd_numit

\* C18: with --rnd-genpmsonoff, in every iteration the initial power state
\* that the placement solver gets for each PM of each CIP is the value drawn
\* for that PM in that iteration.
C18_RandomPowerStates ==
    (iteration >= 1 /\ opts.rnd_gen_pm_power_states)
    => \A c \in Cips(s) :
          LET solver_call == SolverCall(s, opts, <<c>>)
          IN \A h \in 1..solver_call.npms :
                solver_call.pm_power_states[h] = drawn.pm_power_states[c][h - 1]

\* C19: parsing a scenario whose line cip_to_cip_vm_migration_costs holds a
\* full N x N x V table returns a scenario whose table G has G[src][dst][v]
\* equal to the entry (src, dst, v) of the file for every src, dst and v.
C19_MigrationCostsParsed ==
    (pc \in {"parsed", "exited"}
       /\ "cip_to_cip_vm_migration_costs" \in scenario_file.lines)
    => /\ pc = "parsed"
       /\ scen.cip_to_cip_vm_migration_costs = scenario_file.cip_to_cip_vm_migration_costs

\* C20: with one CIP whose placement problem is solved, each of the four
\* selectors returns exactly one partition, {{0}}, and the value that the
\* partition record carries is v({0}) = profit({0}) - cost({0}).
C20_SinglePlayer ==
    (pc = "done" /\ s.num_cips = 1 /\ Solved({0})) =>
        /\ Len(best_partitions) = 1
        /\ best_partitions[1].coalitions = {make_id({0})}
        /\ best_partitions[1].value = ValueOf({0})
        /\ ValueOf({0}) = Minus(FromInt(Profit({0})),
                                 visited_coalitions[make_id({0})].optimal_allocation.cost)

\* With one CIP whose placement problem is solved every selector returns
\* the partition {{0}} and no other.
SinglePlayerPartition ==
    (pc = "done" /\ s.num_cips = 1 /\ Solved({0})) =>
        /\ Len(best_partitions) = 1
        /\ best_partitions[1].coalitions = {make_id({0})}

\* What a PM of a call costs per hour when it is on and hosts nothing, and
\* what switching it off costs.
IdleCost(c, h) ==
    c.pm_specs_min_power[c.pms_category[h]] * ShareDen * c.cips_electricity_cost[c.pms_cip[h]]

AsleepCost(c, h) == c.cip_pm_asleep_costs[c.pms_cip[h]][c.pms_category[h]]

AwakeCost(c, h) == c.cip_pm_awake_costs[c.pms_cip[h]][c.pms_category[h]]

InitiallyOn(c) == {h \in PMsOf(c) : c.pm_power_states[h]}

\* C21: for a coalition with zero VMs the optimal allocation of the min-cost
\* solver powers every PM off, and its cost is the sum of the switch-off
\* costs of the PMs that were initially on.
C21_ZeroVmsAllOff ==
    (pc = "returned" /\ call.nvms = 0 /\ call.status = "Optimal") =>
        /\ \A h \in PMsOf(call) : ~solution.pm_power_states[h]
        /\ solution.cost = FromInt(SumOver(InitiallyOn(call),
                                            [h \in PMsOf(call) |-> AsleepCost(call, h)]))

\* C21, amended: for a coalition with zero VMs the optimal allocation keeps
\* off every PM that was off (when switching on or idling costs anything),
\* switches an initially-on PM off when that costs less than letting it
\* idle and keeps it on when it costs more, and its cost is the sum over
\* the initially-on PMs of the smaller of the two amounts.
C21_ZeroVmsAllOffAmended ==
    (pc = "returned" /\ call.nvms = 0 /\ call.status = "Optimal") =>
        /\ \A h \in PMsOf(call) \ InitiallyOn(call) :
              IdleCost(call, h) + AwakeCost(call, h) > 0 => ~solution.pm_power_states[h]
        /\ \A h \in InitiallyOn(call) :
              /\ AsleepCost(call, h) < IdleCost(call, h) => ~solution.pm_power_states[h]
              /\ AsleepCost(call, h) > IdleCost(call, h) => solution.pm_power_states[h]
        /\ solution.cost =
              FromInt(SumOver(InitiallyOn(call),
                              [h \in PMsOf(call) |->
                                  Min({AsleepCost(call, h), IdleCost(call, h)})]))

C21_Witness ==
    /\ pc = "returned"
    /\ call.nvms = 0
    /\ call.status = "Optimal"
    /\ call.npms = MaxCallPms
    /\ \E h \in InitiallyOn(call) :
          AsleepCost(call, h) > IdleCost(call, h) /\ solution.pm_power_states[h]
    /\ \E h \in PMsOf(call) : ~call.pm_power_states[h] /\ ~solution.pm_power_states[h]

\* The PMs of a CIP that come before its PMs of type p.
PmsBefore(sc, cip, p) ==
    SumOver({q \in PmTypes(sc) : q < p}, [q \in PmTypes(sc) |-> sc.cip_num_pms[cip][q]])

\* The type of the j-th PM of a CIP, j from 0, the PMs grouped by type.
TypeOfPm(sc, cip, j) ==
    CHOOSE p \in PmTypes(sc) :
        PmsBefore(sc, cip, p) <= j /\ j < PmsBefore(sc, cip, p) + sc.cip_num_pms[cip][p]

\* The PMs of a CIP in that order, each with the state the scenario gives it.
MemberPms(sc, cip) ==
    [k \in 1..NumPms(sc, cip) |->
        [cip |-> cip,
         category |-> TypeOfPm(sc, cip, k - 1),
         state |-> sc.cip_pm_power_states[cip][k - 1]]]

RECURSIVE ExpectedPms(_, _, _)
ExpectedPms(sc, coal_cips, i) ==
    IF i > Len(coal_cips) THEN << >>
    ELSE MemberPms(sc, coal_cips[i]) \o ExpectedPms(sc, coal_cips, i + 1)

\* The coalition of the call that was built last.
AssembledCoalition == Sorted(coalition_players(s.num_cips, evaluated[Len(evaluated)]))

\* The PM array of the call lists the PMs of the members in member order,
\* grouped by type within a member, each with its owner and its type.
PmArrayOrder ==
    Len(evaluated) >= 1 =>
        LET pms == ExpectedPms(s, AssembledCoalition, 1)
        IN /\ call.npms = Len(pms)
           /\ \A h \in 1..Len(pms) :
                 /\ call.pms_cip[h] = pms[h].cip
                 /\ call.pms_category[h] = pms[h].category

\* C25: the PM array passed to the solver lists the PMs of the members in
\* member order, grouped by type within a member, each with its owner and
\* its type, and the initial state passed for the j-th PM of member p is
\* cip_pm_power_states[p][j].
C25_PmArray ==
    Len(evaluated) >= 1 =>
        LET pms == ExpectedPms(s, AssembledCoalition, 1)
        IN /\ call.npms = Len(pms)
           /\ \A h \in 1..Len(pms) :
                 /\ call.pms_cip[h] = pms[h].cip
                 /\ call.pms_category[h] = pms[h].category
                 /\ call.pm_power_states[h] = pms[h].state

\* C24: every non-empty proper subset T of a coalition S was evaluated
\* before S, and v(T) is in the game when the payoffs and the core tests of
\* S are computed.
C24_SubsetsFirst ==
    pc \in {"analyze", "done"} =>
        \A i \in 1..Len(evaluated) :
            LET S == coalition_players(s.num_cips, evaluated[i])
            IN \A T \in (SUBSET S) \ {{}, S} :
                  /\ \E j \in 1..(i - 1) : evaluated[j] = make_id(T)
                  /\ make_id(T) \in DOMAIN game
                  /\ ~isnan(GameValue(game, make_id(T)))

C24_Witness ==
    /\ pc = "analyze"
    /\ s.num_cips = MaxCips
    /\ Len(evaluated) = Pow2(MaxCips) - 1
    /\ evaluated[Len(evaluated)] = make_id(Cips(s))
    /\ Solved(Cips(s))
    /\ visited_coalitions[make_id(Cips(s))].payoffs_in_core

\* The largest of a non-empty set of numbers.
MaxReal(R) == CHOOSE x \in R : \A y \in R : GreaterEqual(x, y)

\* The payoffs of player p in the first k partitions that the selector
\* examined.
PayoffsSoFar(p, k) == {examined[j].candidate.payoffs[p] : j \in 1..k}

\* C26: in the Pareto selector, after any prefix of the enumeration the
\* running best-payoff vector holds for each player the largest payoff of
\* the player over the partitions processed so far (here for runs where
\* every payoff is a number).
C26_RunningMax ==
    (Done("pareto")
       /\ \A j \in 1..Len(examined) : \A p \in Cips(s) :
              IsFinite(examined[j].candidate.payoffs[p]))
    => \A i \in 2..Len(examined) : \A p \in Cips(s) :
          Equal(examined[i].best_payoffs[p], MaxReal(PayoffsSoFar(p, i - 1)))

\* The player sets of the coalitions of a partition record.
BlocksOf(rec) == {coalition_players(s.num_cips, cid) : cid \in rec.coalitions}

\* A partition record is a set partition of the players.
IsSetPartition(rec) ==
    /\ \A cid \in rec.coalitions : coalition_players(s.num_cips, cid) # {}
    /\ \A c1 \in rec.coalitions : \A c2 \in rec.coalitions :
          c1 # c2 => coalition_players(s.num_cips, c1)
                        \cap coalition_players(s.num_cips, c2) = {}
    /\ UNION BlocksOf(rec) = Cips(s)

\* The selector examined each set partition of the players exactly once and
\* returned none twice.
EachPartitionOnce ==
    /\ {examined[i].subs : i \in 1..Len(examined)} = SetPartitions(Cips(s))
    /\ \A i \in 1..Len(examined) : \A j \in 1..Len(examined) :
          i # j => examined[i].subs # examined[j].subs
    /\ \A i \in 1..Len(best_partitions) : \A j \in 1..Len(best_partitions) :
          i # j => best_partitions[i].coalitions # best_partitions[j].coalitions

\* The payoff map of a partition record has one entry per player, the
\* payoff that the record of the player's coalition holds for the player.
PayoffsInherited(rec) ==
    /\ DOMAIN rec.payoffs = Cips(s)
    /\ \A pid \in Cips(s) :
          LET cid == make_id(BlockOf(BlocksOf(rec), pid))
          IN /\ pid \in DOMAIN visited_coalitions[cid].payoffs
             /\ rec.payoffs[pid] = visited_coalitions[cid].payoffs[pid]

\* C27: every partition record that a selector returns is a set partition
\* of the players, its payoff map has exactly one entry per player, equal
\* to the payoff recorded for the player in the player's coalition, and no
\* partition is examined or returned twice.
C27_PartitionRecords ==
    pc = "done" =>
        /\ \A i \in 1..Len(best_partitions) :
              IsSetPartition(best_partitions[i]) /\ PayoffsInherited(best_partitions[i])
        /\ EachPartitionOnce

\* The same for the returned partitions whose coalitions are all solved,
\* and without the payoffs for the others.
PartitionRecordsOfSolved ==
    pc = "done" =>
        /\ \A i \in 1..Len(best_partitions) :
              /\ IsSetPartition(best_partitions[i])
              /\ DOMAIN best_partitions[i].payoffs = Cips(s)
              /\ (\A b \in BlocksOf(best_partitions[i]) : Solved(b))
                    => PayoffsInherited(best_partitions[i])
        /\ EachPartitionOnce

\* C29: when some partition of the players is made of solved coalitions
\* only, no partition that a selector returns holds a coalition whose
\* placement problem was not solved.
C29_NoNonViableCoalition ==
    (pc = "done" /\ \E P \in SetPartitions(Cips(s)) : \A b \in P : Solved(b))
    => \A i \in 1..Len(best_partitions) :
          \A b \in BlocksOf(best_partitions[i]) : Solved(b)

\* The coalition rows that export_csv writes for the table of a finished
\* analysis whose report went through.
ExportedRows ==
    IF pc = "done" /\ ~report_throws(s.num_cips, visited_coalitions, best_partitions)
    THEN LET file == export_csv(<< >>, s.num_cips, visited_coalitions, FALSE)
         IN {file[k] : k \in {j \in 1..Len(file) : file[j].kind = "row"}}
    ELSE {}

\* C28: in every row of the CSV file the field Value(Coalition) is v(S),
\* the field Payoff(CIP p) is the payoff recorded for p in S for the
\* members of S, and it is empty for the other CIPs.
C28_CsvValue ==
    \A row \in ExportedRows :
        LET S == coalition_players(s.num_cips, row.cid)
        IN /\ Equal(row.value, GameValue(game, row.cid))
           /\ DOMAIN row.payoffs = S
           /\ \A p \in S : row.payoffs[p] = visited_coalitions[row.cid].payoffs[p]

\* The payoff fields of the rows of solved coalitions, and their value
\* field under the Shapley division.
CsvRowsOfSolved ==
    \A row \in ExportedRows :
        LET S == coalition_players(s.num_cips, row.cid)
        IN Solved(S) =>
              /\ DOMAIN row.payoffs = S
              /\ \A p \in S : row.payoffs[p] = visited_coalitions[row.cid].payoffs[p]
              /\ opts.coalition_value_division = "shapley"
                    => Equal(row.value, GameValue(game, row.cid))

\* A finished analysis of a literal scenario with the defaults of the
\* command line: exact solver, Shapley division.
LiteralRun(migr) ==
    /\ pc = "done"
    /\ s = LiteralScenario(migr)
    /\ opts.opt_time_lim = -1
    /\ opts.coalition_value_division = "shapley"

\* The partitions a selector returned, each as its set of coalitions.
ReturnedPartitions ==
    [k \in DOMAIN best_partitions |->
        {coalition_players(s.num_cips, cid) : cid \in best_partitions[k].coalitions}]

\* The allocation hosts every VM on the PM h and leaves every other PM off.
ConsolidatedOn(alloc, h) ==
    /\ alloc.pm_power_states[h]
    /\ \A v \in DOMAIN alloc.pm_vm_allocations[h] : alloc.pm_vm_allocations[h][v]
    /\ \A k \in DOMAIN alloc.pm_power_states : k # h => ~alloc.pm_power_states[k]

\* C22: in the first literal scenario the grand coalition hosts both VMs on
\* one PM and switches the other off, v({0,1}) > v({0}) + v({1}), the two
\* Shapley payoffs of the grand coalition are equal, and the Nash selector
\* returns the partition {{0,1}} and no other.
C22_FreeMigration ==
    LiteralRun(0) =>
        LET grand == visited_coalitions[make_id({0, 1})]
        IN /\ grand.optimal_allocation.solved
           /\ \E h \in DOMAIN grand.optimal_allocation.pm_power_states :
                 ConsolidatedOn(grand.optimal_allocation, h)
           /\ Greater(ValueOf({0, 1}), Plus(ValueOf({0}), ValueOf({1})))
           /\ Equal(grand.payoffs[0], grand.payoffs[1])
           /\ coalition_formation = "nash" => ReturnedPartitions = <<{{0, 1}}>>

C22_Witness ==
    /\ LiteralRun(0)
    /\ coalition_formation = "nash"
    /\ Equal(ValueOf({0, 1}), FromInt(2 * Dollar - 400))
    /\ Equal(visited_coalitions[make_id({0, 1})].payoffs[0], FromInt(Dollar - 200))

\* The allocation hosts every VM on a PM of the CIP that owns the VM.
HostedAtHome(c, alloc) ==
    \A v \in DOMAIN c.vms_cip :
        \E h \in DOMAIN c.pms_cip :
            /\ alloc.pm_vm_allocations[h][v]
            /\ c.pms_cip[h] = c.vms_cip[v]

\* The values of the second literal scenario: the grand coalition is worth
\* what its members are worth alone, with every VM hosted by its own CIP.
NoGainFromMerging ==
    LET grand == visited_coalitions[make_id({0, 1})]
    IN /\ grand.optimal_allocation.solved
       /\ HostedAtHome(SolverCall(s, opts, <<0, 1>>), grand.optimal_allocation)
       /\ Equal(ValueOf({0, 1}), Plus(ValueOf({0}), ValueOf({1})))

C30_Superadditive ==
    opts.opt_time_lim = -1 =>
        \A U \in Coalitions :
            make_id(U) \in DOMAIN visited_coalitions =>
                \A P \in SetPartitions(U) :
                    (\A b \in P : Solved(b)) =>
                        /\ Solved(U)
                        /\ GreaterEqual(ValueOf(U), TotalValue(P))
                        /\ GreaterEqual(TotalValue(P), ValueOf(U))
                              => Equal(TotalValue(P), ValueOf(U))

\* Two solved coalitions that pay different prices and are worth more
\* together, and two that are worth the same together as apart.
C30_Witness ==
    /\ opts.opt_time_lim = -1
    /\ pc = "done"
    /\ s.num_cips = 3
    /\ s.cip_electricity_costs[0] # s.cip_electricity_costs[1]
    /\ Solved({0}) /\ Solved({1}) /\ Solved({2}) /\ Solved({0, 1}) /\ Solved({0, 1, 2})
    /\ Greater(ValueOf({0, 1}), Plus(ValueOf({0}), ValueOf({1})))
    /\ Equal(ValueOf({0, 1, 2}), Plus(ValueOf({0, 1}), ValueOf({2})))

====
